---- MODULE Spec2Model ----
(***************************************************************************)
(* Model of the retrieval-augmented generation core of ttm-rag:            *)
(*   src/rag/chunker.py       DocumentChunker (sentence / character mode)  *)
(*   src/rag/embeddings.py    EmbeddingGenerator and its chunk_id cache    *)
(*   src/rag/vector_store.py  VectorStore (upsert, search, delete, stats)  *)
(*   src/rag/pipeline.py      RAGPipeline (ingest, retrieve, query, delete)*)
(*                                                                         *)
(* Texts are sequences of one-character strings.  Embeddings are unit      *)
(* vectors in the plane at multiples of 40 degrees; a score is the cosine  *)
(* of the angle between two of them, in hundredths (ScoreScale).           *)
(***************************************************************************)
EXTENDS Integers, Sequences, FiniteSets, TLC

VARIABLES
    pc,               \* position of the modelled caller
    text,             \* chunk_text: the raw text argument
    config,           \* DocumentChunker.config
    chunks,           \* chunk_text: the returned list
    embedding_cache,  \* EmbeddingGenerator.embedding_cache : chunk_id -> vector
    encode_count,     \* SpecEmbed: chunk_id -> number of embeddings the model computed for it since the last clear_cache
    cache_embeddings, \* EmbeddingConfig.cache_embeddings
    store,            \* rows of table chunk_embeddings, in primary-key order
    pgvector,         \* the backend answers the index-assisted (pgvector) query
    stored_log,       \* SpecStore: chunk_id -> what the last successful store of it wrote
    prevIds,          \* chunk ids in the store before the last operation
    sole_doc,         \* the one document ingested into the empty store, while nothing else was written
    lastOp,           \* name of the last operation called
    lastArg,          \* its arguments
    ret,              \* its return value
    prevTotal,        \* get_statistics().total_chunks before the last operation
    repeated,         \* the last operation repeated the previous call with identical arguments
    selector,         \* SpecPolicy: the ModelPolicySelector under test
    adapter,          \* SpecAdapter: the adapter under test and what its backend does
    threads           \* SpecEmbedThreads: thread -> the locals of its embed_chunks call

vars == <<pc, text, config, chunks, embedding_cache, encode_count,
          cache_embeddings, store, pgvector, stored_log, prevIds, sole_doc,
          lastOp, lastArg, ret, prevTotal, repeated, selector, adapter,
          threads>>

chunkerVars == <<text, config, chunks>>

embeddingVars == <<embedding_cache, encode_count, cache_embeddings>>

storeVars == <<store, pgvector, stored_log, prevIds, sole_doc, prevTotal, repeated>>

callVars == <<lastOp, lastArg, ret>>

policyVars == <<selector>>

adapterVars == <<adapter>>

threadVars == <<threads>>

(***************************************************************************)
(* Bounds                                                                  *)
(***************************************************************************)
MaxTextLen == 6

MaxChunkSize == 4

\* largest top_k asked of a search
MaxTopK == 2

\* longest document list handed to one process_documents call
MaxDocs == 2

\* longest chunk list handed to one embed_chunks call
MaxBatch == 2

\* cap on encode_count when the cache is disabled
MaxEncodes == 3

SeqsUpTo(S, n) == UNION {[1..k -> S] : k \in 0..n}

Min(a, b) == IF a <= b THEN a ELSE b

Range(s) == {s[i] : i \in DOMAIN s}

(***************************************************************************)
(* Characters and texts                                                    *)
(***************************************************************************)
Whitespace == {" "}

SentenceEndings == {".", "!", "?"}

Alphabet == {"a", ".", " "}

RECURSIVE TextsOfLen(_)
TextsOfLen(n) ==
    IF n = 0 THEN {<<>>}
    ELSE {Append(t, c) : t \in TextsOfLen(n - 1), c \in Alphabet}

Texts == UNION {TextsOfLen(n) : n \in 0..MaxTextLen}

CharCode(c) ==
    CASE c = "a" -> 1
      [] c = "b" -> 2
      [] c = "." -> 3
      [] c = " " -> 4
      [] OTHER -> 5

(***************************************************************************)
(* chunker.py                                                              *)
(***************************************************************************)
\* hexdigest()[:8]: the digest keeps 32 bits of the hash, so distinct
\* contents can share a digest; here the digest space has HashMod values.
HashMod == 7

RECURSIVE WeightedSum(_, _)
WeightedSum(t, i) ==
    IF i > Len(t) THEN 0 ELSE i * CharCode(t[i]) + WeightedSum(t, i + 1)

content_hash(content) == (Len(content) + WeightedSum(content, 1)) % HashMod

generate_id(document_id, chunk_index, content) ==
    <<document_id, chunk_index, content_hash(content)>>

DocumentChunk(document_id, content, chunk_index, start_char, end_char, metadata) ==
    [chunk_id    |-> generate_id(document_id, chunk_index, content),
     document_id |-> document_id,
     content     |-> content,
     chunk_index |-> chunk_index,
     start_char  |-> start_char,
     end_char    |-> end_char,
     metadata    |-> metadata]

\* re.sub(r'\s+', ' ', text)
RECURSIVE CollapseWhitespace(_, _)
CollapseWhitespace(t, i) ==
    IF i > Len(t) THEN <<>>
    ELSE IF t[i] \in Whitespace
         THEN IF i > 1 /\ t[i - 1] \in Whitespace
              THEN CollapseWhitespace(t, i + 1)
              ELSE <<" ">> \o CollapseWhitespace(t, i + 1)
         ELSE <<t[i]>> \o CollapseWhitespace(t, i + 1)

RECURSIVE LStrip(_)
LStrip(t) ==
    IF t # <<>> /\ t[1] \in Whitespace THEN LStrip(Tail(t)) ELSE t

RECURSIVE RStrip(_)
RStrip(t) ==
    IF t # <<>> /\ t[Len(t)] \in Whitespace
    THEN RStrip(SubSeq(t, 1, Len(t) - 1)) ELSE t

Strip(t) == RStrip(LStrip(t))

_normalize_text(t) == Strip(CollapseWhitespace(t, 1))

\* re.split('([.!?...])', text): texts and delimiters alternate, starting
\* and ending with a (possibly empty) text
RECURSIVE ReSplit(_, _, _, _)
ReSplit(t, i, parts, cur) ==
    IF i > Len(t) THEN Append(parts, cur)
    ELSE IF t[i] \in SentenceEndings
         THEN ReSplit(t, i + 1, parts \o <<cur, <<t[i]>>>>, <<>>)
         ELSE ReSplit(t, i + 1, parts, Append(cur, t[i]))

RECURSIVE Recombine(_, _)
Recombine(parts, k) ==
    IF 2 * k > Len(parts) - 1 THEN <<>>
    ELSE LET sentence == parts[2 * k - 1] \o parts[2 * k]
         IN (IF Strip(sentence) # <<>> THEN <<Strip(sentence)>> ELSE <<>>)
            \o Recombine(parts, k + 1)

_split_sentences(t) ==
    LET sentences == ReSplit(t, 1, <<>>, <<>>)
        paired == Recombine(sentences, 1)
        last == sentences[Len(sentences)]
        result == IF Len(sentences) % 2 = 1 /\ Strip(last) # <<>>
                  THEN Append(paired, Strip(last))
                  ELSE paired
    IN IF result # <<>> THEN result ELSE <<t>>

\* ' '.join(parts)
RECURSIVE JoinSpace(_)
JoinSpace(parts) ==
    IF parts = <<>> THEN <<>>
    ELSE IF Len(parts) = 1 THEN parts[1]
    ELSE parts[1] \o <<" ">> \o JoinSpace(Tail(parts))

\* an overlap of the last three sentences
LastTwo_Three(s) == IF Len(s) <= 3 THEN s ELSE SubSeq(s, Len(s) - 2, Len(s))

\* current_chunk[-2:]
LastTwo(s) == IF Len(s) <= 2 THEN s ELSE SubSeq(s, Len(s) - 1, Len(s))

\* one iteration of the for loop of _chunk_sentences (lines 157-194)
SentenceStep(st, sentence, cfg, document_id, metadata) ==
    LET sentence_size == Len(sentence)
        overflow == st.current_size + sentence_size > cfg.chunk_size
                    /\ st.current_chunk # <<>>
        chunk_text == JoinSpace(st.current_chunk)
        chunk == DocumentChunk(document_id, chunk_text, st.chunk_index,
                               st.char_offset, st.char_offset + Len(chunk_text),
                               metadata)
        overlap_text == JoinSpace(LastTwo(st.current_chunk))
        keep == cfg.chunk_overlap > 0
                /\ Len(overlap_text) <= cfg.chunk_overlap * 2
        closed ==
            [chunks        |-> Append(st.chunks, chunk),
             current_chunk |-> IF keep THEN LastTwo(st.current_chunk) ELSE <<>>,
             current_size  |-> IF keep THEN Len(overlap_text) ELSE 0,
             chunk_index   |-> st.chunk_index + 1,
             char_offset   |-> chunk.end_char]
        s1 == IF overflow THEN closed ELSE st
    IN [s1 EXCEPT !.current_chunk = Append(s1.current_chunk, sentence),
                  !.current_size = s1.current_size + sentence_size + 1]

RECURSIVE SentenceLoop(_, _, _, _, _, _)
SentenceLoop(st, sentences, i, cfg, document_id, metadata) ==
    IF i > Len(sentences) THEN st
    ELSE SentenceLoop(SentenceStep(st, sentences[i], cfg, document_id, metadata),
                      sentences, i + 1, cfg, document_id, metadata)

\* lines 196-212: the remaining sentences become the final chunk
FinalChunk(st, cfg, document_id, metadata) ==
    LET chunk_text == JoinSpace(st.current_chunk)
    IN IF st.current_chunk # <<>> /\ Len(chunk_text) >= cfg.min_chunk_size
       THEN Append(st.chunks,
                   DocumentChunk(document_id, chunk_text, st.chunk_index,
                                 st.char_offset, st.char_offset + Len(chunk_text),
                                 metadata))
       ELSE st.chunks

_chunk_sentences(sentences, document_id, metadata, cfg) ==
    LET st0 == [chunks |-> <<>>, current_chunk |-> <<>>, current_size |-> 0,
                chunk_index |-> 0, char_offset |-> 0]
    IN FinalChunk(SentenceLoop(st0, sentences, 1, cfg, document_id, metadata),
                  cfg, document_id, metadata)

\* for i in range(0, len(text), chunk_size - chunk_overlap)
RECURSIVE CharacterLoop(_, _, _, _, _, _)
CharacterLoop(t, i, chunk_index, cfg, document_id, metadata) ==
    IF i >= Len(t) THEN <<>>
    ELSE LET chunk_start == i
             chunk_end == Min(i + cfg.chunk_size, Len(t))
             chunk_text == SubSeq(t, chunk_start + 1, chunk_end)
             stride == cfg.chunk_size - cfg.chunk_overlap
         IN IF Len(chunk_text) >= cfg.min_chunk_size
            THEN <<DocumentChunk(document_id, chunk_text, chunk_index,
                                 chunk_start, chunk_end, metadata)>>
                 \o CharacterLoop(t, i + stride, chunk_index + 1, cfg,
                                  document_id, metadata)
            ELSE CharacterLoop(t, i + stride, chunk_index, cfg,
                               document_id, metadata)

_chunk_by_characters(t, document_id, metadata, cfg) ==
    CharacterLoop(t, 0, 0, cfg, document_id, metadata)

chunk_text(t, document_id, metadata, cfg) ==
    IF t = <<>> THEN <<>>
    ELSE IF cfg.preserve_sentences
         THEN _chunk_sentences(_split_sentences(_normalize_text(t)),
                               document_id, metadata, cfg)
         ELSE _chunk_by_characters(_normalize_text(t), document_id, metadata, cfg)

(***************************************************************************)
(* embeddings.py                                                           *)
(***************************************************************************)
\* The model's unit vectors: direction d stands for the angle d * 40 degrees.
NumDirections == 9

Vectors == 0..(NumDirections - 1)

RECURSIVE CharSum(_, _)
CharSum(t, i) == IF i > Len(t) THEN 0 ELSE CharCode(t[i]) + CharSum(t, i + 1)

\* model.encode(text, normalize_embeddings=True): a fixed function of the text
generate_embedding(t) == CharSum(t, 1) % NumDirections

Bump(counts, k) ==
    IF k \in DOMAIN counts THEN [counts EXCEPT ![k] = @ + 1]
    ELSE counts @@ (k :> 1)

\* an insert that drops the entries of the other keys
Put_Replace(cache, k, v) == (k :> v)

Put(cache, k, v) ==
    IF k \in DOMAIN cache THEN [cache EXCEPT ![k] = v] ELSE cache @@ (k :> v)

\* a scan that leaves the cached chunks out of the results
RECURSIVE CacheScan_DropHits(_, _, _, _)
CacheScan_DropHits(cs, i, cache, enabled) ==
    IF i > Len(cs) THEN [results |-> <<>>, chunks_to_embed |-> <<>>]
    ELSE LET rest == CacheScan_DropHits(cs, i + 1, cache, enabled)
             chunk == cs[i]
         IN IF enabled /\ chunk.chunk_id \in DOMAIN cache
            THEN rest
            ELSE [rest EXCEPT !.chunks_to_embed = <<chunk>> \o @]

\* lines 148-156: cached chunks go to the results, the others are queued
RECURSIVE CacheScan(_, _, _, _)
CacheScan(cs, i, cache, enabled) ==
    IF i > Len(cs) THEN [results |-> <<>>, chunks_to_embed |-> <<>>]
    ELSE LET rest == CacheScan(cs, i + 1, cache, enabled)
             chunk == cs[i]
         IN IF enabled /\ chunk.chunk_id \in DOMAIN cache
            THEN [rest EXCEPT !.results = <<<<chunk, cache[chunk.chunk_id]>>>> \o @]
            ELSE [rest EXCEPT !.chunks_to_embed = <<chunk>> \o @]

\* lines 159-167: one embedding is computed for every queued chunk, then
\* cached and appended to the results
RECURSIVE EmbedQueued(_, _, _, _)
EmbedQueued(queued, i, st, enabled) ==
    IF i > Len(queued) THEN st
    ELSE LET chunk == queued[i]
             embedding == generate_embedding(chunk.content)
         IN EmbedQueued(queued, i + 1,
                [results |-> Append(st.results, <<chunk, embedding>>),
                 cache   |-> IF enabled THEN Put(st.cache, chunk.chunk_id, embedding)
                             ELSE st.cache,
                 counts  |-> Bump(st.counts, chunk.chunk_id)],
                enabled)

embed_chunks(cs, cache, counts, enabled) ==
    IF cs = <<>> THEN [results |-> <<>>, cache |-> cache, counts |-> counts]
    ELSE LET scan == CacheScan(cs, 1, cache, enabled)
         IN EmbedQueued(scan.chunks_to_embed, 1,
                        [results |-> scan.results, cache |-> cache, counts |-> counts],
                        enabled)

(***************************************************************************)
(* vector_store.py                                                         *)
(***************************************************************************)
\* a metadata value json.dumps rejects (the JSON column cannot be flushed)
NotJson == "<object>"

JsonSerializable(metadata) == \A p \in metadata : p[2] # NotJson

\* json.dumps(embedding.tolist()) and np.array(json.loads(text))
EmbeddingToText(v) == <<"json", v>>

TextToEmbedding(s) == s[2]

\* the ChunkEmbedding row of lines 158-167
ChunkEmbedding(chunk, embedding) ==
    [chunk_id       |-> chunk.chunk_id,
     document_id    |-> chunk.document_id,
     content        |-> chunk.content,
     chunk_index    |-> chunk.chunk_index,
     start_char     |-> chunk.start_char,
     end_char       |-> chunk.end_char,
     chunk_metadata |-> chunk.metadata,
     embedding      |-> EmbeddingToText(embedding)]

\* the DocumentChunk built from a row (lines 292-300, 378-386)
RowToChunk(row) ==
    [chunk_id    |-> row.chunk_id,
     document_id |-> row.document_id,
     content     |-> row.content,
     chunk_index |-> row.chunk_index,
     start_char  |-> row.start_char,
     end_char    |-> row.end_char,
     metadata    |-> row.chunk_metadata]

\* query(ChunkEmbedding).filter_by(chunk_id=...).first(): its position, or 0
RECURSIVE IndexOfFrom(_, _, _)
IndexOfFrom(st, chunk_id, i) ==
    IF i > Len(st) THEN 0
    ELSE IF st[i].chunk_id = chunk_id THEN i
    ELSE IndexOfFrom(st, chunk_id, i + 1)

IndexOf(st, chunk_id) == IndexOfFrom(st, chunk_id, 1)

RemoveAt(s, i) == SubSeq(s, 1, i - 1) \o SubSeq(s, i + 1, Len(s))

\* a store that never looks the chunk_id up and always inserts
store_chunk_embedding_AlwaysInsert(st, chunk, embedding) ==
    IF ~JsonSerializable(chunk.metadata) THEN [store |-> st, ok |-> FALSE]
    ELSE [store |-> Append(st, ChunkEmbedding(chunk, embedding)), ok |-> TRUE]

\* an update that leaves the stored vector as it was
store_chunk_embedding_KeepVector(st, chunk, embedding) ==
    LET existing == IndexOf(st, chunk.chunk_id)
    IN IF ~JsonSerializable(chunk.metadata)
       THEN [store |-> st, ok |-> FALSE]
       ELSE IF existing > 0
       THEN [store |-> [st EXCEPT ![existing].content = chunk.content,
                                  ![existing].chunk_metadata = chunk.metadata],
             ok |-> TRUE]
       ELSE [store |-> Append(st, ChunkEmbedding(chunk, embedding)), ok |-> TRUE]

\* lines 137-190.  The flush of a row whose metadata is not JSON-serializable
\* raises; the handler rolls back and returns False.
store_chunk_embedding(st, chunk, embedding) ==
    LET existing == IndexOf(st, chunk.chunk_id)
    IN IF ~JsonSerializable(chunk.metadata)
       THEN [store |-> st, ok |-> FALSE]
       ELSE IF existing > 0
       THEN [store |-> [st EXCEPT ![existing].content = chunk.content,
                                  ![existing].chunk_metadata = chunk.metadata,
                                  ![existing].embedding = EmbeddingToText(embedding)],
             ok |-> TRUE]
       ELSE [store |-> Append(st, ChunkEmbedding(chunk, embedding)), ok |-> TRUE]

\* lines 205-217; oks records each call's return value
RECURSIVE StoreEach(_, _, _)
StoreEach(acc, pairs, i) ==
    IF i > Len(pairs) THEN acc
    ELSE LET r == store_chunk_embedding(acc.store, pairs[i][1], pairs[i][2])
         IN StoreEach([store |-> r.store,
                       success_count |-> acc.success_count + (IF r.ok THEN 1 ELSE 0),
                       oks |-> Append(acc.oks, r.ok)],
                      pairs, i + 1)

store_chunk_embeddings_batch(st, pairs) ==
    StoreEach([store |-> st, success_count |-> 0, oks |-> <<>>], pairs, 1)

\* a table without the unique constraint on chunk_id
write_record_NoUnique(st, chunk, embedding, existing) ==
    LET row == IndexOf(st, chunk.chunk_id)
    IN IF ~JsonSerializable(chunk.metadata) THEN [store |-> st, ok |-> FALSE]
       ELSE IF existing /\ row > 0
       THEN [store |-> [st EXCEPT ![row].content = chunk.content,
                                  ![row].chunk_metadata = chunk.metadata,
                                  ![row].embedding = EmbeddingToText(embedding)],
             ok |-> TRUE]
       ELSE IF existing THEN [store |-> st, ok |-> FALSE]
       ELSE [store |-> Append(st, ChunkEmbedding(chunk, embedding)), ok |-> TRUE]

\* lines 141-190, after the query of line 139 answered `existing`: the
\* update of the row found, or the insert of a new row.  The flush of an
\* insert whose chunk_id another session has stored since the query breaks
\* the unique constraint of line 35; like every exception it ends in
\* rollback and False (lines 183-186).  A successful call commits (line
\* 179), so a later rollback in the same batch undoes nothing of it.
write_record(st, chunk, embedding, existing) ==
    LET row == IndexOf(st, chunk.chunk_id)
    IN IF ~JsonSerializable(chunk.metadata) THEN [store |-> st, ok |-> FALSE]
       ELSE IF existing /\ row > 0
       THEN [store |-> [st EXCEPT ![row].content = chunk.content,
                                  ![row].chunk_metadata = chunk.metadata,
                                  ![row].embedding = EmbeddingToText(embedding)],
             ok |-> TRUE]
       ELSE IF existing THEN [store |-> st, ok |-> FALSE]
       ELSE IF row > 0 THEN [store |-> st, ok |-> FALSE]
       ELSE [store |-> Append(st, ChunkEmbedding(chunk, embedding)), ok |-> TRUE]

\* cosine of the angle between two unit vectors, times ScoreScale
ScoreScale == 100

\* cos(0), cos(40), cos(80), ..., cos(320) in hundredths
CosineTable == <<100, 77, 17, -50, -94, -94, -50, 17, 77>>

_cosine_similarity(vec1, vec2) == CosineTable[((vec1 - vec2) % NumDirections) + 1]

\* a sort without reverse=True: ascending scores
RECURSIVE InsertByScore_Ascending(_, _)
InsertByScore_Ascending(sorted, x) ==
    IF sorted = <<>> THEN <<x>>
    ELSE IF sorted[1][2] <= x[2]
         THEN <<sorted[1]>> \o InsertByScore_Ascending(Tail(sorted), x)
    ELSE <<x>> \o sorted

\* similarities.sort(key=lambda x: x[1], reverse=True): a stable sort, equal
\* scores keep their order
RECURSIVE InsertByScore(_, _)
InsertByScore(sorted, x) ==
    IF sorted = <<>> THEN <<x>>
    ELSE IF sorted[1][2] >= x[2] THEN <<sorted[1]>> \o InsertByScore(Tail(sorted), x)
    ELSE <<x>> \o sorted

RECURSIVE SortByScoreDesc(_, _)
SortByScoreDesc(pairs, i) ==
    IF i = 0 THEN <<>>
    ELSE InsertByScore(SortByScoreDesc(pairs, i - 1), pairs[i])

\* s[:k] for k >= 0
Take(s, k) == SubSeq(s, 1, Min(k, Len(s)))

\* lines 284-302
Similarities(st, query_embedding) ==
    [i \in 1..Len(st) |->
        <<RowToChunk(st[i]),
          _cosine_similarity(query_embedding, TextToEmbedding(st[i].embedding))>>]

\* lines 276-306: the numpy path
BruteForceSearch(st, query_embedding, top_k) ==
    IF st = <<>> THEN <<>>
    ELSE LET similarities == Similarities(st, query_embedding)
         IN Take(SortByScoreDesc(similarities, Len(similarities)), top_k)

\* lines 241-271: ORDER BY distance LIMIT top_k; the database may return
\* rows of equal distance in any order
IndexSearch(st, query_embedding, top_k) ==
    LET similarities == Similarities(st, query_embedding)
        n == Len(st)
        orders == {f \in [1..n -> 1..n] :
                      /\ \A i, j \in 1..n : i # j => f[i] # f[j]
                      /\ \A i \in 1..(n - 1) :
                            similarities[f[i]][2] >= similarities[f[i + 1]][2]}
    IN {Take([i \in 1..n |-> similarities[f[i]]], top_k) : f \in orders}

\* lines 219-309: the set of lists the call can return.  filter_metadata is
\* accepted and read by neither path.
similarity_search(st, query_embedding, top_k, filter_metadata, indexed) ==
    IF indexed THEN IndexSearch(st, query_embedding, top_k)
    ELSE {BruteForceSearch(st, query_embedding, top_k)}

\* a search without the except branch: the failure of the index query
\* reaches the caller
similarity_search_call_NoFallback(st, query_embedding, top_k, filter_metadata, indexed, index_fault, scan_fault) ==
    IF indexed /\ ~index_fault
    THEN {[raised |-> FALSE, value |-> results, index_queries |-> 1, scans |-> 0] :
             results \in IndexSearch(st, query_embedding, top_k)}
    ELSE {[raised |-> TRUE, value |-> <<>>, index_queries |-> 1, scans |-> 0]}

\* lines 236-309 with the statements that can raise: the index query
\* (lines 244-255) raises when the database has no vector column or
\* operator (indexed is false) or fails otherwise (index_fault); the
\* except branch (lines 273-306) then reads every row once, and what that
\* read raises (scan_fault) leaves the function through `finally`.  The
\* counters record how often each statement ran.
similarity_search_call(st, query_embedding, top_k, filter_metadata, indexed, index_fault, scan_fault) ==
    IF indexed /\ ~index_fault
    THEN {[raised |-> FALSE, value |-> results, index_queries |-> 1, scans |-> 0] :
             results \in IndexSearch(st, query_embedding, top_k)}
    ELSE IF ~scan_fault
    THEN {[raised |-> FALSE, value |-> BruteForceSearch(st, query_embedding, top_k),
           index_queries |-> 1, scans |-> 1]}
    ELSE {[raised |-> TRUE, value |-> <<>>, index_queries |-> 1, scans |-> 1]}

\* lines 372-389: ORDER BY chunk_index
RECURSIVE InsertByIndex(_, _)
InsertByIndex(sorted, row) ==
    IF sorted = <<>> THEN <<row>>
    ELSE IF sorted[1].chunk_index <= row.chunk_index
         THEN <<sorted[1]>> \o InsertByIndex(Tail(sorted), row)
    ELSE <<row>> \o sorted

RECURSIVE RowsOfDocument(_, _, _)
RowsOfDocument(st, document_id, i) ==
    IF i = 0 THEN <<>>
    ELSE IF st[i].document_id = document_id
         THEN InsertByIndex(RowsOfDocument(st, document_id, i - 1), st[i])
    ELSE RowsOfDocument(st, document_id, i - 1)

get_chunks_by_document(st, document_id) ==
    LET rows == RowsOfDocument(st, document_id, Len(st))
    IN [i \in 1..Len(rows) |-> RowToChunk(rows[i])]

\* a delete that reports success and removes nothing
delete_chunk_KeepRow(st, chunk_id) ==
    LET i == IndexOf(st, chunk_id)
    IN IF i > 0 THEN [store |-> st, ok |-> TRUE]
       ELSE [store |-> st, ok |-> FALSE]

\* lines 404-420
delete_chunk(st, chunk_id) ==
    LET i == IndexOf(st, chunk_id)
    IN IF i > 0 THEN [store |-> RemoveAt(st, i), ok |-> TRUE]
       ELSE [store |-> st, ok |-> FALSE]

\* lines 429-440
get_statistics(st) ==
    [total_chunks |-> Len(st),
     unique_documents |-> Cardinality({st[i].document_id : i \in 1..Len(st)})]

ChunkIds(st) == {st[i].chunk_id : i \in 1..Len(st)}

(***************************************************************************)
(* models/registry.py, models/policy.py, generation.py                     *)
(***************************************************************************)
\* _ADAPTER_CLASS_PATHS
RegisteredAdapters == {"hf-typhoon-7b", "openai-gpt-4o-mini", "qwen3-code"}

\* get_adapter: raises ValueError for an id that is not registered
get_adapter(adapter_id) ==
    IF adapter_id \in RegisteredAdapters
    THEN [raised |-> FALSE, adapter_id |-> adapter_id]
    ELSE [raised |-> TRUE, adapter_id |-> adapter_id]

\* _AVAILABLE_MODELS, in catalog order, with each entry's provider
Catalog == <<"hf-typhoon-7b", "openai-gpt-4o-mini", "qwen3-code">>

Provider(model_id) ==
    CASE model_id = "hf-typhoon-7b" -> "huggingface"
      [] model_id = "openai-gpt-4o-mini" -> "openai"
      [] OTHER -> "qwen"

\* capabilities.local of the catalog entry
Local(model_id) == model_id = "hf-typhoon-7b"

\* _DEFAULT_COSTS in thousandths of a dollar
_DEFAULT_COSTS ==
    [model_id \in {"hf-typhoon-7b", "openai-gpt-4o-mini", "qwen3-code"} |->
        IF model_id = "openai-gpt-4o-mini" THEN 3 ELSE 0]

\* no costs argument
NoCosts == [model_id \in {} |-> 0]

\* ModelPolicySelector(costs, default_model_id) (lines 28-39)
ModelPolicySelector(costs, default_model_id) ==
    [_costs |-> costs @@ _DEFAULT_COSTS,
     _default |-> IF default_model_id \in Range(Catalog) THEN default_model_id
                  ELSE "hf-typhoon-7b"]

\* ModelPolicySelector.get_cost
get_cost(sel, model_id) ==
    IF model_id \in DOMAIN sel._costs THEN sel._costs[model_id] ELSE 0

\* constraints.get(key, default)
Get(constraints, key, default) ==
    IF key \in DOMAIN constraints THEN constraints[key] ELSE default

\* (language or "").lower()
Lower(language) ==
    CASE language = "TH" -> "th"
      [] language = "None" -> ""
      [] OTHER -> language

\* a policy that applies the allow_external filter and no budget filter
select_model_IgnoreBudget(sel, persona, language, constraints) ==
    LET allow_external == Get(constraints, "allow_external", FALSE)
        candidates == IF ~allow_external
                      THEN {mid \in Range(Catalog) : Provider(mid) # "openai"}
                      ELSE Range(Catalog)
    IN IF Lower(language) \in {"th", "mixed"} /\ "hf-typhoon-7b" \in candidates
       THEN "hf-typhoon-7b"
       ELSE IF persona = "clinician" /\ allow_external
               /\ "openai-gpt-4o-mini" \in candidates
       THEN "openai-gpt-4o-mini"
       ELSE "hf-typhoon-7b"

\* a policy that applies the persona rule and a remote-first preference
\* order, and no language rule
select_model_NoLanguageRule(sel, persona, language, constraints) ==
    LET allow_external == Get(constraints, "allow_external", FALSE)
    IN IF persona = "clinician" /\ allow_external THEN "openai-gpt-4o-mini"
       ELSE "qwen3-code"

\* a policy whose last resort is the built-in id, whatever default the
\* selector was constructed with
select_model_BuiltinFallback(sel, persona, language, constraints) ==
    LET allow_external == Get(constraints, "allow_external", FALSE)
        limited == "max_cost_per_call" \in DOMAIN constraints
        allowed == IF ~allow_external
                   THEN {mid \in Range(Catalog) : Provider(mid) # "openai"}
                   ELSE Range(Catalog)
        affordable == IF limited
                      THEN {mid \in allowed :
                               get_cost(sel, mid) <= constraints["max_cost_per_call"]}
                      ELSE allowed
    IN IF Lower(language) \in {"th", "mixed"} /\ "hf-typhoon-7b" \in affordable
       THEN "hf-typhoon-7b"
       ELSE IF persona = "clinician" /\ allow_external
               /\ "openai-gpt-4o-mini" \in affordable
       THEN "openai-gpt-4o-mini"
       ELSE IF "qwen3-code" \in affordable /\ "hf-typhoon-7b" \notin affordable
       THEN "qwen3-code"
       ELSE IF affordable = {"openai-gpt-4o-mini"} THEN "openai-gpt-4o-mini"
       ELSE "hf-typhoon-7b"

\* ModelPolicySelector.select_model (policy.py lines 46-95)
select_model(sel, persona, language, constraints) ==
    LET allow_external == Get(constraints, "allow_external", FALSE)
        limited == "max_cost_per_call" \in DOMAIN constraints
        candidates == Range(Catalog)
        allowed == IF ~allow_external
                   THEN {mid \in candidates : Provider(mid) # "openai"}
                   ELSE candidates
        affordable == IF limited
                      THEN {mid \in allowed :
                               get_cost(sel, mid) <= constraints["max_cost_per_call"]}
                      ELSE allowed
    IN IF Lower(language) \in {"th", "mixed"} /\ "hf-typhoon-7b" \in affordable
       THEN "hf-typhoon-7b"
       ELSE IF persona = "clinician" /\ allow_external
               /\ "openai-gpt-4o-mini" \in affordable
       THEN "openai-gpt-4o-mini"
       ELSE IF "hf-typhoon-7b" \in affordable THEN "hf-typhoon-7b"
       ELSE IF "qwen3-code" \in affordable THEN "qwen3-code"
       ELSE IF "openai-gpt-4o-mini" \in affordable THEN "openai-gpt-4o-mini"
       ELSE sel._default

\* sep.join(parts)
RECURSIVE JoinWith(_, _)
JoinWith(parts, sep) ==
    IF parts = <<>> THEN <<>>
    ELSE IF Len(parts) = 1 THEN parts[1]
    ELSE parts[1] \o sep \o JoinWith(Tail(parts), sep)

Contents(context_chunks) ==
    [i \in 1..Len(context_chunks) |-> context_chunks[i].content]

\* TextGenerator.generate_answer (generation.py lines 23-44); an answer is
\* the sequence of its fixed phrase and the characters that follow
AssemblerNoContext ==
    <<"I could not find any relevant information to answer your question.">>

AssemblerPrefix == <<"Based on the retrieved context, here is a summary:">>

generate_answer(query, context_chunks) ==
    IF context_chunks = <<>> THEN AssemblerNoContext
    ELSE AssemblerPrefix \o <<"\n", "\n">>
            \o JoinWith(Contents(context_chunks), <<"\n", "\n">>)

\* the marker of the string returned when the backend cannot be used
\* (no transformers pipeline, no API key or SDK, no base_url or httpx)
FallbackMarker(adapter_id) ==
    CASE adapter_id = "hf-typhoon-7b" -> "[typhoon-fallback]"
      [] adapter_id = "openai-gpt-4o-mini" -> "[openai-fallback:gpt-4o-mini]"
      [] OTHER -> "[qwen-fallback:qwen3-code]"

\* the marker of the string returned when the backend call raised
RuntimeFallbackMarker(adapter_id) ==
    CASE adapter_id = "hf-typhoon-7b" -> "[typhoon-runtime-fallback]"
      [] adapter_id = "openai-gpt-4o-mini" -> "[openai-runtime-fallback:gpt-4o-mini]"
      [] OTHER -> "[qwen-runtime-fallback:qwen3-code]"

\* combined[:800]
FallbackChars == 800

\* what the adapter finds when generate is called: the backend answers, it
\* cannot be used, its call raises, or its call does not come back
BackendStates == {"ok", "unavailable", "fails", "blocks"}

\* request_timeout / timeout (30 s) of the OpenAI client and of the httpx
\* client; the transformers pipeline call has none
HasRequestTimeout(adapter_id) == adapter_id # "hf-typhoon-7b"

\* " ".join([c.get("content", "") for c in context]).strip()
CombinedContext(context_chunks) == Strip(JoinWith(Contents(context_chunks), <<" ">>))

\* a generate that lets the error of a failed backend call through
AdapterGenerate_Propagate(adapter_id, context_chunks, backend) ==
    LET combined == CombinedContext(context_chunks)
    IN IF backend = "unavailable"
       THEN [raised |-> FALSE, returned |-> TRUE,
             text |-> <<FallbackMarker(adapter_id), " ">>
                         \o Take(IF combined = <<>> THEN <<"No context available.">>
                                 ELSE combined, FallbackChars)]
       ELSE IF backend = "ok"
       THEN [raised |-> FALSE, returned |-> TRUE,
             text |-> <<"<text generated by the model>", adapter_id>>]
       ELSE [raised |-> TRUE, returned |-> TRUE, text |-> <<>>]

\* Adapter.generate of the three adapters.  Each catches what its backend
\* call raises.  A call that blocks ends in the client's own timeout error
\* where the client has one, and then takes the same path as a call that
\* raised.
AdapterGenerate(adapter_id, context_chunks, backend) ==
    LET combined == CombinedContext(context_chunks)
    IN IF backend = "unavailable"
       THEN [raised |-> FALSE, returned |-> TRUE,
             text |-> <<FallbackMarker(adapter_id), " ">>
                         \o Take(IF combined = <<>> THEN <<"No context available.">>
                                 ELSE combined, FallbackChars)]
       ELSE IF backend = "ok"
       THEN [raised |-> FALSE, returned |-> TRUE,
             text |-> <<"<text generated by the model>", adapter_id>>]
       ELSE IF backend = "fails" \/ HasRequestTimeout(adapter_id)
       THEN [raised |-> FALSE, returned |-> TRUE,
             text |-> <<RuntimeFallbackMarker(adapter_id), " ">>
                         \o Take(combined, FallbackChars)]
       ELSE [raised |-> FALSE, returned |-> FALSE, text |-> <<>>]

\* synthesizer_agent.synthesize + safety_adjudicator.adjudicate: the answer text
Synthesize(context_chunks) ==
    IF context_chunks = <<>>
    THEN <<"No relevant context found to answer the query.">>
    ELSE LET top == Take(Contents(context_chunks), 2)
             stripped == [i \in 1..Len(top) |-> Strip(top[i])]
         IN JoinWith(stripped, <<"\n", "\n">>)

\* planner_agent.plan: top_k by persona (lines 40-46)
PlanTopK(persona, default_top_k) ==
    IF persona = "clinician" THEN (IF default_top_k >= 6 THEN default_top_k ELSE 6)
    ELSE IF persona = "pharmacist" THEN (IF default_top_k >= 5 THEN default_top_k ELSE 5)
    ELSE default_top_k

(***************************************************************************)
(* pipeline.py                                                             *)
(***************************************************************************)
\* RAGConfig.top_k
ConfigTopK == 5

\* RAGConfig.similarity_threshold = 0.3, times ScoreScale
SimilarityThreshold == 30

\* model / top_k argument left at None
None == "None"

\* a process_documents that gives up at the first document it cannot use
RECURSIVE ChunkDocuments_StopAtBad(_, _, _)
ChunkDocuments_StopAtBad(documents, i, cfg) ==
    IF i > Len(documents) THEN <<>>
    ELSE LET doc == documents[i]
         IN IF doc.id = "" \/ doc.content = <<>> THEN <<>>
            ELSE chunk_text(doc.content, doc.id, doc.metadata, cfg)
                 \o ChunkDocuments_StopAtBad(documents, i + 1, cfg)

\* DocumentChunker.process_documents (chunker.py lines 260-275)
RECURSIVE ChunkDocuments(_, _, _)
ChunkDocuments(documents, i, cfg) ==
    IF i > Len(documents) THEN <<>>
    ELSE LET doc == documents[i]
         IN (IF doc.id = "" \/ doc.content = <<>> THEN <<>>
             ELSE chunk_text(doc.content, doc.id, doc.metadata, cfg))
            \o ChunkDocuments(documents, i + 1, cfg)

\* lines 102-113: embed and store all_chunks batch by batch
RECURSIVE IngestBatches(_, _, _, _, _)
IngestBatches(st, all_chunks, i, batch_size, enabled) ==
    IF i >= Len(all_chunks) THEN st
    ELSE LET batch == SubSeq(all_chunks, i + 1, Min(i + batch_size, Len(all_chunks)))
             e == embed_chunks(batch, st.cache, st.counts, enabled)
             b == store_chunk_embeddings_batch(st.store, e.results)
         IN IngestBatches([store |-> b.store, cache |-> e.cache, counts |-> e.counts,
                           stored_count |-> st.stored_count + b.success_count],
                          all_chunks, i + batch_size, batch_size, enabled)

\* RAGPipeline.process_documents with no preprocessors configured
process_documents(documents, batch_size, st, cache, counts, enabled, cfg) ==
    LET all_chunks == ChunkDocuments(documents, 1, cfg)
        done == IngestBatches([store |-> st, cache |-> cache, counts |-> counts,
                               stored_count |-> 0],
                              all_chunks, 0, batch_size, enabled)
    IN [store |-> done.store, cache |-> done.cache, counts |-> done.counts,
        stats |-> [documents_processed |-> Len(documents),
                   chunks_created |-> Len(all_chunks),
                   chunks_stored |-> done.stored_count]]

(***************************************************************************)
(* pipeline_ext.py: preprocessors run on a document before chunking        *)
(***************************************************************************)
\* metadata.update(new): a later value replaces the value of the same key
Update(metadata, new) ==
    {p \in metadata : ~\E q \in new : q[1] = p[1]} \cup new

\* a preprocessor that str.replace()s part of the content
Redacted(content) ==
    [i \in 1..Len(content) |-> IF content[i] = "a" THEN "b" ELSE content[i]]

\* the callables a RAGConfig.preprocessors list is built from, by __name__
Preprocessors ==
    {"redact_preprocessor", "tag_stage", "returns_none", "raises", "marks_then_raises"}

\* pre({"id", "content", "metadata"}): what the call returns or that it
\* raised, and the metadata dict it was handed as the call leaves it (the
\* dict is the caller's own object, so a write to it stays)
RunPreprocessor(name, doc) ==
    CASE name = "redact_preprocessor" ->
           [raised |-> FALSE, metadata_after |-> doc.metadata,
            value |-> [type |-> "dict", content |-> Redacted(doc.content),
                       metadata |-> {<<"pdpa", "true">>, <<"stage", "redacted">>},
                       audit |-> {<<"redactions", "PII">>}]]
      [] name = "tag_stage" ->
           [raised |-> FALSE, metadata_after |-> doc.metadata,
            value |-> [type |-> "tuple", content |-> doc.content,
                       metadata |-> {<<"stage", "tagged">>}, audit |-> {}]]
      [] name = "returns_none" ->
           [raised |-> FALSE, metadata_after |-> doc.metadata,
            value |-> [type |-> "NoneType", content |-> <<>>, metadata |-> {},
                       audit |-> {}]]
      [] name = "raises" ->
           [raised |-> TRUE, metadata_after |-> doc.metadata,
            value |-> [type |-> "NoneType", content |-> <<>>, metadata |-> {},
                       audit |-> {}]]
      [] OTHER ->
           [raised |-> TRUE,
            metadata_after |-> Update(doc.metadata, {<<"seen", "yes">>}),
            value |-> [type |-> "NoneType", content |-> <<>>, metadata |-> {},
                       audit |-> {}]]

\* _to_result (lines 42-65)
_to_result(value) ==
    CASE value.type = "dict" ->
           [content |-> value.content, metadata |-> value.metadata,
            audit |-> value.audit]
      [] value.type = "tuple" ->
           [content |-> value.content, metadata |-> value.metadata, audit |-> {}]
      [] value.type = "str" ->
           [content |-> value.content, metadata |-> {}, audit |-> {}]
      [] OTHER ->
           [content |-> <<>>, metadata |-> {},
            audit |-> {<<"error", "invalid_preprocessor_output">>}]

\* merged_audit = {}
EmptyAudit == [key \in {} |-> 0]

\* f"{idx}:{name}"
AuditKey(idx, name) == ToString(idx) \o ":" \o name

\* one turn of the loop of lines 90-105; received lists what each
\* preprocessor was called with
PreprocessorStep(st, doc, idx, name) ==
    LET arg == [id |-> doc.id, content |-> st.content, metadata |-> st.metadata]
        out == RunPreprocessor(name, arg)
        result == _to_result(out.value)
        received == Append(st.received, arg)
    IN IF out.raised
       THEN [content |-> st.content, metadata |-> out.metadata_after,
             audit |-> Put(st.audit, AuditKey(idx, name),
                           [status |-> "error", error |-> "boom"]),
             received |-> received]
       ELSE [content |-> result.content,
             metadata |-> IF result.metadata # {}
                          THEN Update(out.metadata_after, result.metadata)
                          ELSE out.metadata_after,
             audit |-> Put(st.audit, AuditKey(idx, name),
                           [status |-> "ok", details |-> result.audit]),
             received |-> received]

RECURSIVE PreprocessorLoop(_, _, _, _)
PreprocessorLoop(st, doc, preprocessors, i) ==
    IF i > Len(preprocessors) THEN st
    ELSE PreprocessorLoop(PreprocessorStep(st, doc, i - 1, preprocessors[i]),
                          doc, preprocessors, i + 1)

\* apply_preprocessors (lines 68-107)
apply_preprocessors(doc, preprocessors) ==
    PreprocessorLoop([content |-> doc.content, metadata |-> doc.metadata,
                      audit |-> EmptyAudit, received |-> <<>>],
                     doc, preprocessors, 1)

\* pipeline.py lines 78-97: the documents handed to the chunker
RECURSIVE PreDocs(_, _, _)
PreDocs(documents, preprocessors, i) ==
    IF i > Len(documents) THEN <<>>
    ELSE LET doc == documents[i]
             pre == apply_preprocessors(doc, preprocessors)
             merged_metadata == Update(doc.metadata, pre.metadata)
         IN <<[id |-> doc.id, content |-> pre.content,
               metadata |-> IF DOMAIN pre.audit # {}
                            THEN Update(merged_metadata,
                                        {<<"audit", ToString(pre.audit)>>})
                            ELSE merged_metadata]>>
            \o PreDocs(documents, preprocessors, i + 1)

\* RAGPipeline.process_documents of a pipeline with this preprocessors list
process_documents_pre(documents, preprocessors, batch_size, st, cache, counts, enabled, cfg) ==
    IF preprocessors = <<>>
    THEN process_documents(documents, batch_size, st, cache, counts, enabled, cfg)
    ELSE LET r == process_documents(PreDocs(documents, preprocessors, 1), batch_size,
                                    st, cache, counts, enabled, cfg)
         IN [r EXCEPT !.stats.documents_processed = Len(documents)]

\* a retrieve that keeps every result the store returned
RECURSIVE FilterByThreshold_KeepAll(_, _)
FilterByThreshold_KeepAll(results, i) ==
    IF i > Len(results) THEN <<>>
    ELSE <<results[i]>> \o FilterByThreshold_KeepAll(results, i + 1)

\* lines 158-162
RECURSIVE FilterByThreshold(_, _)
FilterByThreshold(results, i) ==
    IF i > Len(results) THEN <<>>
    ELSE (IF results[i][2] >= SimilarityThreshold THEN <<results[i]>> ELSE <<>>)
         \o FilterByThreshold(results, i + 1)

\* RAGPipeline.retrieve: the set of lists it can return
retrieve(query, top_k, filter_metadata, st, indexed) ==
    LET k == IF top_k = 0 THEN ConfigTopK ELSE top_k
        query_embedding == generate_embedding(query)
    IN {FilterByThreshold(results, 1) :
            results \in similarity_search(st, query_embedding, k, filter_metadata, indexed)}

ContextChunks(results) ==
    [i \in 1..Len(results) |->
        [content |-> results[i][1].content, score |-> results[i][2],
         document_id |-> results[i][1].document_id,
         chunk_index |-> results[i][1].chunk_index]]

\* lines 232-237: metadata["source"] when present, else the document_id
SourceOf(chunk) ==
    IF \E p \in chunk.metadata : p[1] = "source"
    THEN (CHOOSE p \in chunk.metadata : p[1] = "source")[2]
    ELSE chunk.document_id

\* lines 268-276 and 277-293: the adapter is looked up and asked; whatever
\* is raised on the way is logged and answered by the default assembler
AdapterBranch(branch, before, adapter_id, query, context_chunks, opts) ==
    LET a == get_adapter(adapter_id)
        g == AdapterGenerate(a.adapter_id, context_chunks, opts.backend)
    IN IF a.raised
       THEN [branch |-> branch, returned |-> TRUE,
             calls |-> before \o <<"assemble_prompt", "get_adapter", "generate_answer">>,
             answer |-> generate_answer(query, context_chunks)]
       ELSE IF g.raised
       THEN [branch |-> branch, returned |-> TRUE,
             calls |-> before \o <<"assemble_prompt", "get_adapter", "adapter.generate",
                                   "generate_answer">>,
             answer |-> generate_answer(query, context_chunks)]
       ELSE [branch |-> branch, returned |-> g.returned,
             calls |-> before \o <<"assemble_prompt", "get_adapter", "adapter.generate">>,
             answer |-> g.text]

\* lines 247-295: the answer, the branch taken and the calls it made
Generate(query, context_chunks, opts) ==
    IF opts.agentic
    THEN [branch |-> "agentic", returned |-> TRUE,
          calls |-> <<"synthesize", "adjudicate">>,
          answer |-> Synthesize(context_chunks)]
    ELSE IF opts.model # None
    THEN AdapterBranch("model", <<>>, opts.model, query, context_chunks, opts)
    ELSE IF opts.use_policy
    THEN AdapterBranch("policy", <<"select_model">>,
                       select_model(ModelPolicySelector(NoCosts, "hf-typhoon-7b"),
                                    opts.persona, opts.language,
                                    opts.policy_constraints),
                       query, context_chunks, opts)
    ELSE [branch |-> "default", returned |-> TRUE, calls |-> <<"generate_answer">>,
          answer |-> generate_answer(query, context_chunks)]

\* RAGPipeline.query: the set of outcomes.  Nothing raised inside the
\* generation branches leaves the handler, and no timeout bounds a branch:
\* the call returns when its branch does.
query(q, top_k, return_context, filter_metadata, opts, st, indexed) ==
    LET default_top_k == IF top_k = 0 THEN ConfigTopK ELSE top_k
        use_top_k == IF opts.agentic THEN PlanTopK(opts.persona, default_top_k)
                     ELSE top_k
    IN {LET context_chunks == ContextChunks(results)
            g == Generate(q, context_chunks, opts)
        IN [raised |-> FALSE,
            returned |-> g.returned,
            branch |-> g.branch,
            calls |-> g.calls,
            response |->
               [query |-> q,
                num_results |-> Len(results),
                answer |-> g.answer,
                context |-> IF return_context THEN context_chunks ELSE <<>>,
                sources |-> {SourceOf(results[i][1]) : i \in 1..Len(results)},
                combined_context |-> JoinWith(Contents(context_chunks), <<"\n", "\n">>)]] :
        results \in retrieve(q, use_top_k, filter_metadata, st, indexed)}

\* RAGPipeline.delete_document (lines 340-348)
RECURSIVE DeleteEach(_, _, _)
DeleteEach(acc, cs, i) ==
    IF i > Len(cs) THEN acc
    ELSE LET r == delete_chunk(acc.store, cs[i].chunk_id)
         IN DeleteEach([store |-> r.store,
                        deleted_count |-> acc.deleted_count + (IF r.ok THEN 1 ELSE 0)],
                       cs, i + 1)

delete_document(document_id, st) ==
    DeleteEach([store |-> st, deleted_count |-> 0],
               get_chunks_by_document(st, document_id), 1)

(***************************************************************************)
(* Values shared by the specifications                                     *)
(***************************************************************************)
EmptyFn == [x \in {} |-> 0]

\* chunk metadata: a set of <<key, value>> pairs, one pair per key
NoMetadata == {}

NoCall == [op |-> "none"]

NoDoc == [id |-> "none", content |-> <<>>, metadata |-> {}]

\* the variables a specification does not use
IdleEmbedding ==
    /\ embedding_cache = EmptyFn
    /\ encode_count = EmptyFn
    /\ cache_embeddings = TRUE

IdleStore ==
    /\ store = <<>>
    /\ pgvector = FALSE
    /\ stored_log = EmptyFn
    /\ prevIds = {}
    /\ sole_doc = NoDoc
    /\ prevTotal = 0
    /\ repeated = FALSE

IdleCall ==
    /\ lastOp = "none"
    /\ lastArg = NoCall
    /\ ret = 0

IdlePolicy == selector = NoCall

IdleAdapter == adapter = NoCall

IdleThreads == threads = <<>>

\* ChunkConfig() scaled down: chunk_size 512, chunk_overlap 50, min_chunk_size 100
DefaultConfig ==
    [chunk_size |-> 12, chunk_overlap |-> 2, min_chunk_size |-> 6,
     preserve_sentences |-> TRUE]

(***************************************************************************)
(* SpecChunker: chunk_text applied to every text and configuration         *)
(***************************************************************************)
ChunkConfigs ==
    {[chunk_size |-> cs, chunk_overlap |-> co, min_chunk_size |-> mc,
      preserve_sentences |-> ps] :
        cs \in 2..MaxChunkSize, co \in 0..MaxChunkSize, mc \in 0..MaxChunkSize,
        ps \in BOOLEAN}

\* range() needs a positive stride, and a minimum above chunk_size leaves
\* no chunk at all
ValidConfig(cfg) ==
    /\ cfg.chunk_overlap < cfg.chunk_size
    /\ cfg.min_chunk_size <= cfg.chunk_size

InitChunker ==
    /\ pc = "chunk_input"
    /\ text \in Texts
    /\ config \in {cfg \in ChunkConfigs : ValidConfig(cfg)}
    /\ chunks = <<>>
    /\ IdleEmbedding
    /\ IdleStore
    /\ IdleCall
    /\ IdlePolicy
    /\ IdleAdapter
    /\ IdleThreads

IdleChunker ==
    /\ text = <<>>
    /\ config = DefaultConfig
    /\ chunks = <<>>

ChunkText ==
    /\ pc = "chunk_input"
    /\ chunks' = chunk_text(text, "d1", NoMetadata, config)
    /\ pc' = "chunk_done"
    /\ UNCHANGED <<text, config, embeddingVars, storeVars, callVars, policyVars,
                   adapterVars, threadVars>>

NextChunker == ChunkText

SpecChunker == InitChunker /\ [][NextChunker]_vars

(***************************************************************************)
(* Claims about the chunker                                                *)
(***************************************************************************)
\* C5 (as stated): chunk_text on a non-empty text whose normalized length is
\* below min_chunk_size returns exactly one chunk holding that text, in
\* sentence mode and in character mode.
C5_ShortTextOneChunk ==
    (pc = "chunk_done" /\ text # <<>>
        /\ Len(_normalize_text(text)) < config.min_chunk_size)
    => (Len(chunks) = 1
        /\ chunks[1].content =
               IF config.preserve_sentences
               THEN JoinSpace(_split_sentences(_normalize_text(text)))
               ELSE _normalize_text(text))

\* s occurs in t as a contiguous run of characters
Occurs(s, t) ==
    \E i \in 0..(Len(t) - Len(s)) : SubSeq(t, i + 1, i + Len(s)) = s

\* the sentences from index i on occur in the chunks from index j on, in order
RECURSIVE CoveredInOrder(_, _, _, _)
CoveredInOrder(sentences, i, cs, j) ==
    IF i > Len(sentences) THEN TRUE
    ELSE IF j > Len(cs) THEN FALSE
    ELSE IF Occurs(sentences[i], cs[j].content)
         THEN CoveredInOrder(sentences, i + 1, cs, j)
         ELSE CoveredInOrder(sentences, i, cs, j + 1)

\* C6 (as stated): with preserve_sentences, for every non-empty text each
\* sentence of the normalized text occurs in at least one returned chunk and
\* the sentences occur across the chunks in source order.
C6_NoSentenceLost ==
    (pc = "chunk_done" /\ text # <<>> /\ config.preserve_sentences)
    => CoveredInOrder(_split_sentences(_normalize_text(text)), 1, chunks, 1)

\* the sentences chunk_text cuts the text into
SentencesOf(t) == _split_sentences(_normalize_text(t))

\* C21 (as stated): with preserve_sentences and no single sentence longer
\* than chunk_size, every returned chunk's content (its sentences joined by
\* single spaces, the overlap seed included) has at most chunk_size
\* characters.
C21_ChunkWithinChunkSize ==
    (pc = "chunk_done" /\ text # <<>> /\ config.preserve_sentences
        /\ \A i \in 1..Len(SentencesOf(text)) :
              Len(SentencesOf(text)[i]) <= config.chunk_size)
    => \A k \in 1..Len(chunks) : Len(chunks[k].content) <= config.chunk_size

\* C22 (as stated): every chunk returned by chunk_text, in sentence mode
\* and in character mode, satisfies 0 <= start_char < end_char, and the
\* chunks of one document are returned with chunk_index values 0, 1, 2, ...
\* in non-decreasing order with start_char non-decreasing along that order.
C22_OffsetsAndIndexOrdered ==
    pc = "chunk_done"
    => /\ \A k \in 1..Len(chunks) :
             /\ 0 <= chunks[k].start_char
             /\ chunks[k].start_char < chunks[k].end_char
             /\ chunks[k].chunk_index = k - 1
       /\ \A k \in 1..(Len(chunks) - 1) :
             chunks[k].start_char <= chunks[k + 1].start_char

\* the sentences carried over from a closed chunk made of these sentences
Seed(closed) ==
    LET last == IF Len(closed) <= 2 THEN closed
                ELSE <<closed[Len(closed) - 1], closed[Len(closed)]>>
    IN IF config.chunk_overlap > 0 /\ Len(JoinSpace(last)) <= 2 * config.chunk_overlap
       THEN last ELSE <<>>

\* chunks k, k+1, ... are made of the seed followed by one or more of the
\* sentences from position i on, each sentence taken once and in order;
\* what is left at the end is the seed and sentences of a final chunk below
\* min_chunk_size
RECURSIVE SeededInOrder(_, _, _, _)
SeededInOrder(sentences, i, k, seed) ==
    IF k > Len(chunks)
    THEN \/ i > Len(sentences) /\ (k = 1 \/ seed = <<>>)
         \/ Len(JoinSpace(seed \o SubSeq(sentences, i, Len(sentences))))
               < config.min_chunk_size
    ELSE \E j \in i..Len(sentences) :
            LET members == seed \o SubSeq(sentences, i, j)
            IN /\ chunks[k].content = JoinSpace(members)
               /\ IF k < Len(chunks) \/ j < Len(sentences)
                  THEN SeededInOrder(sentences, j + 1, k + 1, Seed(members))
                  ELSE TRUE

\* C25: on overflow in sentence mode the closed chunk is emitted and the
\* next chunk is seeded with the last up-to-two sentences of the closed
\* chunk exactly when chunk_overlap > 0 and their space-joined length is at
\* most 2 x chunk_overlap; otherwise the next chunk starts empty.
\* Consecutive chunks share at most two sentences, and every sentence is
\* appended to the accumulating chunk exactly once as a new sentence.
C25_OverlapSeed ==
    (pc = "chunk_done" /\ text # <<>> /\ config.preserve_sentences)
    => SeededInOrder(SentencesOf(text), 1, 1, <<>>)

\* a text of four sentences or more cut into three chunks or more, the
\* second of them seeded with two sentences
C25_Witness ==
    /\ pc = "chunk_done"
    /\ config.preserve_sentences
    /\ config.chunk_overlap > 0
    /\ Len(SentencesOf(text)) >= 4
    /\ Len(chunks) >= 3
    /\ Len(chunks[2].content) > Len(chunks[1].content)
    /\ SubSeq(chunks[2].content, 1, Len(chunks[1].content)) = chunks[1].content

(***************************************************************************)
(* SpecEmbed: embed_chunks and clear_cache on one EmbeddingGenerator       *)
(***************************************************************************)
\* 'a' and 'a.' share a content digest and differ in their embedding
EmbedPool ==
    {DocumentChunk("d1", <<"a">>, 0, 0, 1, NoMetadata),
     DocumentChunk("d1", <<"a", ".">>, 0, 0, 2, NoMetadata),
     DocumentChunk("d1", <<"a", "a">>, 0, 0, 2, NoMetadata),
     DocumentChunk("d2", <<"a", "a">>, 0, 0, 2, NoMetadata)}

InitEmbed ==
    /\ pc = "embed"
    /\ embedding_cache = EmptyFn
    /\ encode_count = EmptyFn
    /\ cache_embeddings \in BOOLEAN
    /\ IdleChunker
    /\ IdleStore
    /\ IdleCall
    /\ IdlePolicy
    /\ IdleAdapter
    /\ IdleThreads

EmbedChunks ==
    /\ pc = "embed"
    /\ \E cs \in SeqsUpTo(EmbedPool, MaxBatch) :
          LET r == embed_chunks(cs, embedding_cache, encode_count, cache_embeddings)
          IN /\ \A k \in DOMAIN r.counts : r.counts[k] <= MaxEncodes
             /\ embedding_cache' = r.cache
             /\ encode_count' = r.counts
             /\ lastOp' = "embed_chunks"
             /\ lastArg' = [op |-> "embed_chunks", chunks |-> cs]
             /\ ret' = r.results
    /\ UNCHANGED <<pc, cache_embeddings, chunkerVars, policyVars, adapterVars, threadVars, storeVars>>

ClearCache ==
    /\ pc = "embed"
    /\ embedding_cache' = EmptyFn
    /\ encode_count' = EmptyFn
    /\ lastOp' = "clear_cache"
    /\ lastArg' = [op |-> "clear_cache"]
    /\ ret' = 0
    /\ UNCHANGED <<pc, cache_embeddings, chunkerVars, policyVars, adapterVars, threadVars, storeVars>>

NextEmbed == EmbedChunks \/ ClearCache

SpecEmbed == InitEmbed /\ [][NextEmbed]_vars

\* C7 (as stated): with cache_embeddings enabled, between two clear_cache
\* calls the model computes an embedding at most once for each chunk_id,
\* whatever the embed_chunks calls and their chunk lists.
C7_AtMostOneEmbeddingPerChunkId ==
    cache_embeddings => \A k \in DOMAIN encode_count : encode_count[k] <= 1

\* the results hold the chunks of cs, each as often as cs holds it
SameChunks(results, cs) ==
    /\ Len(results) = Len(cs)
    /\ \E f \in [1..Len(cs) -> 1..Len(cs)] :
          /\ \A i, j \in 1..Len(cs) : i # j => f[i] # f[j]
          /\ \A i \in 1..Len(cs) : results[f[i]][1] = cs[i]

\* C27: every embed_chunks call returns one (chunk, vector) pair for every
\* chunk of its list, and the vector of a pair is the one the cache held
\* for the pair's chunk_id when the call began (cache enabled and the id
\* cached), the embedding of the pair's content otherwise.
C27_OnePairPerChunk ==
    [][lastOp' = "embed_chunks"
        => /\ SameChunks(ret', lastArg'.chunks)
           /\ \A j \in 1..Len(ret') :
                 ret'[j][2] = IF cache_embeddings
                                  /\ ret'[j][1].chunk_id \in DOMAIN embedding_cache
                              THEN embedding_cache[ret'[j][1].chunk_id]
                              ELSE generate_embedding(ret'[j][1].content)]_vars

\* a list of an uncached chunk followed by a cached one: the cached chunk
\* comes first in the results, the other was encoded in this call
C27_Witness ==
    /\ lastOp = "embed_chunks"
    /\ cache_embeddings
    /\ Len(ret) = 2
    /\ lastArg.chunks[1].chunk_id # lastArg.chunks[2].chunk_id
    /\ ret[1][1] = lastArg.chunks[2]
    /\ ret[2][1] = lastArg.chunks[1]
    /\ ret[2][2] = generate_embedding(lastArg.chunks[1].content)

\* the caller takes the returned value and is ready for its next call
Return ==
    /\ pc = "returned"
    /\ pc' = "ready"
    /\ lastOp' = "none"
    /\ lastArg' = NoCall
    /\ ret' = 0
    /\ prevIds' = {}
    /\ prevTotal' = 0
    /\ repeated' = FALSE
    /\ UNCHANGED <<store, pgvector, stored_log, sole_doc, chunkerVars, policyVars, adapterVars, threadVars, embeddingVars>>

(***************************************************************************)
(* SpecStore: the VectorStore called directly, as its unit tests do         *)
(***************************************************************************)
Pubmed == {<<"source_type", "pubmed">>}

PubmedThai == {<<"source_type", "pubmed">>, <<"lang", "th">>}

Web == {<<"source_type", "web">>}

Unserializable == {<<"source_type", "pubmed">>, <<"handle", NotJson>>}

TestChunk(chunk_id, document_id, content, chunk_index, metadata) ==
    [chunk_id    |-> chunk_id,
     document_id |-> document_id,
     content     |-> content,
     chunk_index |-> chunk_index,
     start_char  |-> 0,
     end_char    |-> Len(content),
     metadata    |-> metadata]

\* (chunk, embedding) pairs handed to the store; the first two share a chunk_id
StorePool ==
    {<<TestChunk(<<"doc1", 0, 0>>, "doc1", <<"a">>, 0, Pubmed), 0>>,
     <<TestChunk(<<"doc1", 0, 0>>, "doc1", <<"a", ".">>, 0, PubmedThai), 1>>,
     <<TestChunk(<<"doc1", 1, 0>>, "doc1", <<"a", "a">>, 1, PubmedThai), 5>>,
     <<TestChunk(<<"doc1", 1, 0>>, "doc1", <<".">>, 1, Web), 3>>,
     <<TestChunk(<<"doc2", 0, 0>>, "doc2", <<"a">>, 0, NoMetadata), 1>>,
     <<TestChunk(<<"doc2", 0, 0>>, "doc2", <<"a">>, 0, Unserializable), 3>>}

StoreFilters == {{}, Pubmed, PubmedThai, {<<"source_type", "unknown">>}}

PoolChunkIds == {p[1].chunk_id : p \in StorePool}

Written(pair) ==
    [content |-> pair[1].content, metadata |-> pair[1].metadata, embedding |-> pair[2]]

\* stored_log after a batch whose calls returned oks
RECURSIVE LogEach(_, _, _, _)
LogEach(log, pairs, oks, i) ==
    IF i > Len(pairs) THEN log
    ELSE LogEach(IF oks[i] THEN Put(log, pairs[i][1].chunk_id, Written(pairs[i]))
                 ELSE log,
                 pairs, oks, i + 1)

InitStore ==
    /\ pc = "ready"
    /\ store = <<>>
    /\ pgvector \in BOOLEAN
    /\ stored_log = EmptyFn
    /\ prevIds = {}
    /\ sole_doc = NoDoc
    /\ prevTotal = 0
    /\ repeated = FALSE
    /\ IdleChunker
    /\ IdleEmbedding
    /\ IdleCall
    /\ IdlePolicy
    /\ IdleAdapter
    /\ IdleThreads

StoreBatch ==
    /\ pc = "ready"
    /\ pc' = "returned"
    /\ \E pairs \in SeqsUpTo(StorePool, MaxBatch) :
          LET r == store_chunk_embeddings_batch(store, pairs)
          IN /\ store' = r.store
             /\ stored_log' = LogEach(stored_log, pairs, r.oks, 1)
             /\ lastOp' = "store_chunk_embeddings_batch"
             /\ lastArg' = [op |-> "store_chunk_embeddings_batch", pairs |-> pairs,
                            oks |-> r.oks]
             /\ ret' = r.success_count
    /\ prevIds' = ChunkIds(store)
    /\ prevTotal' = Len(store)
    /\ UNCHANGED <<pgvector, repeated, sole_doc, chunkerVars, policyVars, adapterVars, threadVars, embeddingVars>>

SimilaritySearch ==
    /\ pc = "ready"
    /\ pc' = "returned"
    /\ \E query_embedding \in Vectors, top_k \in 0..MaxTopK,
          filter_metadata \in StoreFilters :
          \E results \in similarity_search(store, query_embedding, top_k,
                                            filter_metadata, pgvector) :
             /\ lastOp' = "similarity_search"
             /\ lastArg' = [op |-> "similarity_search",
                            query_embedding |-> query_embedding, top_k |-> top_k,
                            filter_metadata |-> filter_metadata]
             /\ ret' = results
    /\ prevIds' = ChunkIds(store)
    /\ prevTotal' = Len(store)
    /\ UNCHANGED <<store, pgvector, stored_log, repeated, sole_doc, chunkerVars, policyVars, adapterVars, threadVars,
                   embeddingVars>>

DeleteChunk ==
    /\ pc = "ready"
    /\ pc' = "returned"
    /\ \E chunk_id \in PoolChunkIds :
          LET r == delete_chunk(store, chunk_id)
          IN /\ store' = r.store
             /\ lastOp' = "delete_chunk"
             /\ lastArg' = [op |-> "delete_chunk", chunk_id |-> chunk_id]
             /\ ret' = r.ok
    /\ prevIds' = ChunkIds(store)
    /\ prevTotal' = Len(store)
    /\ UNCHANGED <<pgvector, stored_log, repeated, sole_doc, chunkerVars, policyVars, adapterVars, threadVars, embeddingVars>>

NextStore == StoreBatch \/ SimilaritySearch \/ DeleteChunk \/ Return

SpecStore == InitStore /\ [][NextStore]_vars

(***************************************************************************)
(* Claims about the vector store                                           *)
(***************************************************************************)
\* C1 (as stated): similarity_search with a filter_metadata map returns only
\* records whose metadata holds every given pair, and so returns the empty
\* list when no stored record matches.
C1_FilterMetadataRespected ==
    lastOp = "similarity_search"
    => \A i \in 1..Len(ret) : lastArg.filter_metadata \subseteq ret[i][1].metadata

\* the stores of the last batch that returned True
StoredOk == {i \in 1..Len(lastArg.pairs) : lastArg.oks[i]}

\* C8: a store whose chunk_id is already present overwrites content,
\* metadata and vector and adds no record (there is one record per
\* chunk_id, and the count grows only by the new chunk_ids); every record
\* holds what the last successful store of its chunk_id wrote.
C8_UpsertOverwrites ==
    /\ \A i \in 1..Len(store) :
          /\ store[i].chunk_id \in DOMAIN stored_log
          /\ Written(<<RowToChunk(store[i]), TextToEmbedding(store[i].embedding)>>)
                = stored_log[store[i].chunk_id]
    /\ \A i, j \in 1..Len(store) :
          store[i].chunk_id = store[j].chunk_id => i = j
    /\ lastOp = "store_chunk_embeddings_batch"
          => /\ Len(store) = prevTotal
                    + Cardinality({lastArg.pairs[i][1].chunk_id : i \in StoredOk} \ prevIds)
             /\ ret = Cardinality(StoredOk)

\* a successful store of a chunk_id that was present, with other content
C8_Witness ==
    /\ lastOp = "store_chunk_embeddings_batch"
    /\ \E i \in StoredOk :
          /\ lastArg.pairs[i][1].chunk_id \in prevIds
          /\ lastArg.pairs[i][1].content = <<"a", ".">>
    /\ Len(store) = prevTotal
    /\ Len(store) >= 2

Scores(results) == [i \in 1..Len(results) |-> results[i][2]]

\* C10: the brute-force path returns at most top_k pairs, in non-increasing
\* score order, and no record left out of the result scores higher than a
\* returned one.
C10_BruteForceTopK ==
    (lastOp = "similarity_search" /\ ~pgvector)
    => /\ Len(ret) <= lastArg.top_k
       /\ \A i \in 1..(Len(ret) - 1) : ret[i][2] >= ret[i + 1][2]
       /\ \A i \in 1..Len(ret) :
             /\ ret[i][1].chunk_id \in ChunkIds(store)
             /\ ret[i][2] = _cosine_similarity(lastArg.query_embedding,
                    TextToEmbedding(store[IndexOf(store, ret[i][1].chunk_id)].embedding))
       /\ \A j \in 1..Len(store) :
             (\A i \in 1..Len(ret) : ret[i][1].chunk_id # store[j].chunk_id)
             => \A i \in 1..Len(ret) :
                   ret[i][2] >= _cosine_similarity(lastArg.query_embedding,
                                                   TextToEmbedding(store[j].embedding))
       /\ Len(ret) = Min(lastArg.top_k, Len(store))

\* a search that had to cut: more records than top_k, with distinct scores
C10_Witness ==
    /\ lastOp = "similarity_search"
    /\ ~pgvector
    /\ Len(ret) = 2
    /\ Len(store) = 3
    /\ ret[1][2] > ret[2][2]
    /\ ret[1][1].chunk_id # store[1].chunk_id

\* C23 (as stated): among stored records with equal similarity score,
\* similarity_search returns them in the order in which their chunk_ids
\* were inserted into the store (rows are kept in that order), after any
\* sequence of stores, upserts and deletes.
C23_TiesInInsertionOrder ==
    (lastOp = "similarity_search" /\ pc = "returned")
    => \A i, j \in 1..Len(ret) :
          (i < j /\ ret[i][2] = ret[j][2])
          => IndexOf(store, ret[i][1].chunk_id) < IndexOf(store, ret[j][1].chunk_id)

(***************************************************************************)
(* SpecSearch: similarity_search on a database whose statements can fail    *)
(***************************************************************************)
InitSearch == InitStore

\* vector_store.similarity_search(query_embedding, top_k, filter_metadata)
\* with the faults of the database as inputs of the call
SimilaritySearchCall ==
    /\ pc = "ready"
    /\ pc' = "returned"
    /\ \E query_embedding \in Vectors, top_k \in 0..MaxTopK,
          index_fault \in BOOLEAN, scan_fault \in BOOLEAN :
          \E outcome \in similarity_search_call(store, query_embedding, top_k, {},
                                                 pgvector, index_fault, scan_fault) :
             /\ lastOp' = "similarity_search"
             /\ lastArg' = [op |-> "similarity_search",
                            query_embedding |-> query_embedding, top_k |-> top_k,
                            index_fault |-> index_fault, scan_fault |-> scan_fault]
             /\ ret' = outcome
    /\ prevIds' = ChunkIds(store)
    /\ prevTotal' = Len(store)
    /\ UNCHANGED <<store, pgvector, stored_log, repeated, sole_doc, chunkerVars, policyVars, adapterVars, threadVars,
                   embeddingVars>>

NextSearch == StoreBatch \/ SimilaritySearchCall \/ Return

SpecSearch == InitSearch /\ [][NextSearch]_vars

\* the last call was similarity_search and it has ended
Searched == lastOp = "similarity_search" /\ pc = "returned"

\* the index query of the last search raised
IndexFailed == ~pgvector \/ lastArg.index_fault

\* C26: when the index-assisted query fails, similarity_search runs the
\* brute-force path once in the same call and returns its result; the call
\* raises only when the brute-force read fails as well, and the returned
\* list is one the index path could have returned for the same store.
C26_FallbackToBruteForce ==
    (Searched /\ IndexFailed)
    => /\ ret.index_queries = 1
       /\ ret.scans = 1
       /\ ret.raised <=> lastArg.scan_fault
       /\ ~ret.raised
             => /\ ret.value = BruteForceSearch(store, lastArg.query_embedding, lastArg.top_k)
                /\ ret.value \in IndexSearch(store, lastArg.query_embedding, lastArg.top_k)

\* a database without the vector column answers a search over three rows
\* from the brute-force path
C26_Witness ==
    /\ Searched
    /\ ~pgvector
    /\ ~lastArg.scan_fault
    /\ Len(store) = 3
    /\ ret.scans = 1
    /\ ~ret.raised
    /\ Len(ret.value) = 2
    /\ ret.value[1][2] > ret.value[2][2]

(***************************************************************************)
(* SpecPipeline: one RAGPipeline driven through its public methods, on a   *)
(* database without the vector index                                       *)
(***************************************************************************)
\* 'a. a.': two sentences, shorter than min_chunk_size of DefaultConfig
Short == <<"a", ".", " ", "a", ".">>

\* 'aa. aa.': two sentences that fit one chunk of DefaultConfig
TwoSent == <<"a", "a", ".", " ", "a", "a", ".">>

\* 'aaaaa. aaaaaa.': two sentences that overflow chunk_size
Long == <<"a", "a", "a", "a", "a", ".", " ", "a", "a", "a", "a", "a", "a", ".">>

Doc(id, content, metadata) == [id |-> id, content |-> content, metadata |-> metadata]

Documents ==
    {Doc("d1", Long, Pubmed),
     Doc("d1", Short, Web),
     Doc("d2", TwoSent, Pubmed),
     Doc("d2", TwoSent, Unserializable),
     Doc("d2", <<>>, Pubmed),
     Doc("", TwoSent, Pubmed)}

DocumentIds == {"d1", "d2", "d3"}

\* batch_size: one chunk at a time, or the default of 10
BatchSizes == {1, 10}

\* ChunkConfig defaults, and the min_chunk_size=1 the pipeline tests configure
PipelineConfigs == {DefaultConfig, [DefaultConfig EXCEPT !.min_chunk_size = 1]}

\* query texts: 'aa.', '.', 'aaaaaa.'
Queries == {<<"a", "a", ".">>, <<".">>, <<"a", "a", "a", "a", "a", "a", ".">>}

\* the keyword arguments of one query call, the persona and language its
\* headers carry, and whether the adapter's backend answers
QueryOpts(agentic, model, use_policy, persona, language, allow_external, backend, return_context, filter_metadata) ==
    [agentic |-> agentic, model |-> model, use_policy |-> use_policy,
     persona |-> persona, language |-> language,
     policy_constraints |-> [allow_external |-> allow_external],
     backend |-> backend,
     return_context |-> return_context, filter_metadata |-> filter_metadata]

QueryModes ==
    {QueryOpts(FALSE, None, FALSE, "wellness", "en", FALSE, "ok", TRUE, NoMetadata),
     QueryOpts(FALSE, None, FALSE, "wellness", "en", FALSE, "ok", FALSE, Pubmed),
     QueryOpts(FALSE, "hf-typhoon-7b", FALSE, "wellness", "en", FALSE, "ok", TRUE, NoMetadata),
     QueryOpts(FALSE, "hf-typhoon-7b", FALSE, "wellness", "en", FALSE, "unavailable", TRUE, Web),
     QueryOpts(FALSE, "hf-typhoon-7b", TRUE, "wellness", "en", FALSE, "blocks", TRUE, NoMetadata),
     QueryOpts(FALSE, "qwen3-code", FALSE, "wellness", "en", FALSE, "fails", TRUE, NoMetadata),
     QueryOpts(FALSE, "no-such-model", FALSE, "wellness", "en", FALSE, "ok", TRUE, NoMetadata),
     QueryOpts(FALSE, "openai-gpt-4o-mini", TRUE, "wellness", "th", FALSE, "unavailable", TRUE, NoMetadata),
     QueryOpts(TRUE, None, FALSE, "clinician", "en", FALSE, "ok", TRUE, NoMetadata),
     QueryOpts(TRUE, "no-such-model", TRUE, "pharmacist", "en", FALSE, "fails", FALSE, NoMetadata),
     QueryOpts(FALSE, None, TRUE, "clinician", "en", TRUE, "blocks", TRUE, NoMetadata),
     QueryOpts(FALSE, None, TRUE, "wellness", "th", FALSE, "fails", TRUE, Pubmed)}

InitPipeline ==
    /\ pc = "ready"
    /\ text = <<>>
    /\ chunks = <<>>
    /\ config \in PipelineConfigs
    /\ embedding_cache = EmptyFn
    /\ encode_count = EmptyFn
    /\ cache_embeddings = TRUE
    /\ IdleStore
    /\ IdleCall
    /\ IdlePolicy
    /\ IdleAdapter
    /\ IdleThreads

\* process_documents(documents, batch_size)
ProcessDocuments ==
    /\ pc = "ready"
    /\ pc' = "returned"
    /\ \E documents \in SeqsUpTo(Documents, MaxDocs), batch_size \in BatchSizes :
          LET r == process_documents(documents, batch_size, store, embedding_cache,
                                     EmptyFn, cache_embeddings, config)
          IN /\ store' = r.store
             /\ embedding_cache' = r.cache
             /\ lastOp' = "process_documents"
             /\ lastArg' = [op |-> "process_documents", documents |-> documents,
                            batch_size |-> batch_size]
             /\ ret' = r.stats
             /\ sole_doc' = IF store = <<>> /\ Len(documents) = 1
                            THEN documents[1] ELSE NoDoc
    /\ prevIds' = ChunkIds(store)
    /\ prevTotal' = get_statistics(store).total_chunks
    /\ repeated' = FALSE
    /\ UNCHANGED <<pgvector, stored_log, encode_count, cache_embeddings, chunkerVars, policyVars, adapterVars, threadVars>>

\* the caller repeats its process_documents call with the identical list
ProcessDocumentsAgain ==
    /\ pc = "returned"
    /\ lastOp = "process_documents"
    /\ ~repeated
    /\ LET r == process_documents(lastArg.documents, lastArg.batch_size, store,
                                  embedding_cache, EmptyFn, cache_embeddings,
                                  config)
       IN /\ store' = r.store
          /\ embedding_cache' = r.cache
          /\ ret' = r.stats
    /\ prevIds' = ChunkIds(store)
    /\ prevTotal' = get_statistics(store).total_chunks
    /\ repeated' = TRUE
    /\ UNCHANGED <<pc, lastOp, lastArg, sole_doc, pgvector, stored_log,
                   encode_count, cache_embeddings, chunkerVars, policyVars, adapterVars, threadVars>>

\* add_document(document_id, content, metadata) (lines 316-328)
AddDocument ==
    /\ pc = "ready"
    /\ pc' = "returned"
    /\ \E doc \in Documents :
          LET r == process_documents(<<doc>>, 10, store, embedding_cache,
                                     EmptyFn, cache_embeddings, config)
          IN /\ store' = r.store
             /\ embedding_cache' = r.cache
             /\ lastOp' = "add_document"
             /\ lastArg' = [op |-> "add_document", document |-> doc]
             /\ ret' = (r.stats.chunks_stored > 0)
             /\ sole_doc' = IF store = <<>> THEN doc ELSE NoDoc
    /\ prevIds' = ChunkIds(store)
    /\ prevTotal' = get_statistics(store).total_chunks
    /\ repeated' = FALSE
    /\ UNCHANGED <<pgvector, stored_log, encode_count, cache_embeddings, chunkerVars, policyVars, adapterVars, threadVars>>

\* delete_document(document_id)
DeleteDocument ==
    /\ pc = "ready"
    /\ pc' = "returned"
    /\ \E document_id \in DocumentIds :
          LET r == delete_document(document_id, store)
          IN /\ store' = r.store
             /\ lastOp' = "delete_document"
             /\ lastArg' = [op |-> "delete_document", document_id |-> document_id]
             /\ ret' = r.deleted_count
    /\ sole_doc' = NoDoc
    /\ prevIds' = ChunkIds(store)
    /\ prevTotal' = get_statistics(store).total_chunks
    /\ repeated' = FALSE
    /\ UNCHANGED <<pgvector, stored_log, embeddingVars, chunkerVars, policyVars, adapterVars, threadVars>>

\* query(query, top_k, return_context, model, filter_metadata, agentic, ...);
\* top_k = 0 stands for the argument left out.  A call whose generation
\* branch does not come back leaves the caller blocked.
Query ==
    /\ pc = "ready"
    /\ \E q \in Queries, top_k \in 0..MaxTopK, opts \in QueryModes :
          \E out \in query(q, top_k, opts.return_context, opts.filter_metadata,
                           opts, store, pgvector) :
             /\ pc' = IF out.returned THEN "returned" ELSE "blocked"
             /\ lastOp' = "query"
             /\ lastArg' = [op |-> "query", query |-> q, top_k |-> top_k,
                            opts |-> opts]
             /\ ret' = out
    /\ prevIds' = ChunkIds(store)
    /\ prevTotal' = get_statistics(store).total_chunks
    /\ repeated' = FALSE
    /\ UNCHANGED <<store, sole_doc, pgvector, stored_log, embeddingVars, chunkerVars, policyVars, adapterVars, threadVars>>

\* RAGPipeline.clear_cache
PipelineClearCache ==
    /\ pc = "ready"
    /\ pc' = "returned"
    /\ embedding_cache' = EmptyFn
    /\ lastOp' = "clear_cache"
    /\ lastArg' = [op |-> "clear_cache"]
    /\ ret' = 0
    /\ prevIds' = ChunkIds(store)
    /\ prevTotal' = get_statistics(store).total_chunks
    /\ repeated' = FALSE
    /\ UNCHANGED <<store, sole_doc, pgvector, stored_log, encode_count,
                   cache_embeddings, chunkerVars, policyVars, adapterVars, threadVars>>

NextPipeline ==
    \/ ProcessDocuments
    \/ ProcessDocumentsAgain
    \/ AddDocument
    \/ DeleteDocument
    \/ Query
    \/ PipelineClearCache
    \/ Return

SpecPipeline == InitPipeline /\ [][NextPipeline]_vars

(***************************************************************************)
(* Claims about the pipeline                                               *)
(***************************************************************************)
UnknownModelQuery ==
    /\ lastOp = "query"
    /\ ~lastArg.opts.agentic
    /\ lastArg.opts.model # None
    /\ lastArg.opts.model \notin RegisteredAdapters

\* C2 (as stated): query called with a model id that is not registered, and
\* agentic not set, surfaces the unknown-adapter error to the caller; it
\* returns no response whose answer the default text assembler or another
\* adapter produced.
C2_UnknownModelSurfaced ==
    UnknownModelQuery
    => /\ ret.raised
       /\ Head(ret.response.answer) \notin {Head(AssemblerPrefix), Head(AssemblerNoContext)}

\* C3: process_documents called a second time with the identical document
\* list leaves get_statistics().total_chunks at its value after the first
\* call; the second run derives the same chunk ids and adds no record.
C3_ReprocessIdempotent ==
    (lastOp = "process_documents" /\ repeated)
    => /\ get_statistics(store).total_chunks = prevTotal
       /\ ChunkIds(store) = prevIds

\* a repeated call whose two documents gave three stored chunks
C3_Witness ==
    /\ lastOp = "process_documents"
    /\ repeated
    /\ Len(lastArg.documents) = 2
    /\ ret.chunks_stored = 3
    /\ get_statistics(store).total_chunks = 3

\* a single short document 'd1' of two sentences went into the empty store,
\* and a top_k = 1 query whose embedding has positive similarity to its text
\* has returned
ShortDocQueried ==
    /\ lastOp = "query"
    /\ pc = "returned"
    /\ sole_doc.id = "d1"
    /\ Len(_split_sentences(_normalize_text(sole_doc.content))) = 2
    /\ Len(sole_doc.content) < config.chunk_size
    /\ JsonSerializable(sole_doc.metadata)
    /\ lastArg.top_k = 1
    /\ _cosine_similarity(generate_embedding(lastArg.query),
                          generate_embedding(_normalize_text(sole_doc.content))) > 0

\* C4 (as stated): after a single short document 'd1' (two sentences, shorter
\* than chunk_size) is ingested into an empty store, a query with top_k = 1
\* and positive similarity to the document returns exactly one result, whose
\* document_id is 'd1'.
C4_ShortDocRetrieved ==
    ShortDocQueried
    => /\ ret.response.num_results = 1
       /\ lastArg.opts.return_context
             => /\ Len(ret.response.context) = 1
                /\ ret.response.context[1].document_id = "d1"

RecordsOf(st, document_id) ==
    {i \in 1..Len(st) : st[i].document_id = document_id}

OtherRows(st, document_id) ==
    SelectSeq(st, LAMBDA row : row.document_id # document_id)

\* C9: after delete_document(d) no record of d remains and unique_documents
\* no longer counts d, the returned count is the number of records d had,
\* and the records of every other document are stored unchanged, so
\* total_chunks drops by exactly that count.
C9_DeleteDocument ==
    [][(pc = "ready" /\ lastOp' = "delete_document")
        => LET d == lastArg'.document_id
           IN /\ RecordsOf(store', d) = {}
              /\ get_statistics(store').unique_documents
                    = Cardinality({store[i].document_id : i \in 1..Len(store)} \ {d})
              /\ ret' = Cardinality(RecordsOf(store, d))
              /\ store' = OtherRows(store, d)
              /\ get_statistics(store').total_chunks
                    = get_statistics(store).total_chunks - ret']_vars

\* delete_document removed the two records of one document and left another
\* document's record
C9_Witness ==
    /\ lastOp = "delete_document"
    /\ ret = 2
    /\ prevTotal = 3
    /\ get_statistics(store).total_chunks = 1
    /\ get_statistics(store).unique_documents = 1

\* the top_k the last query handed to the store
UsedTopK ==
    LET default_top_k == IF lastArg.top_k = 0 THEN ConfigTopK ELSE lastArg.top_k
    IN IF lastArg.opts.agentic /\ lastArg.opts.persona = "clinician" /\ default_top_k < 6
       THEN 6
       ELSE IF lastArg.opts.agentic /\ lastArg.opts.persona = "pharmacist"
               /\ default_top_k < 5
       THEN 5
       ELSE default_top_k

\* what the store can have returned to the last query
StoreReturned ==
    similarity_search(store, generate_embedding(lastArg.query), UsedTopK,
                      lastArg.opts.filter_metadata, pgvector)

AtOrAbove(raw) == {i \in 1..Len(raw) : raw[i][2] >= SimilarityThreshold}

\* C11: every chunk in a query response has a score at or above
\* similarity_threshold, and num_results counts exactly the chunks the store
\* returned with such a score; a chunk returned with a lower score is in no
\* response.
C11_ThresholdRespected ==
    (lastOp = "query" /\ pc = "returned")
    => /\ \E raw \in StoreReturned :
             /\ ret.response.num_results = Cardinality(AtOrAbove(raw))
             /\ lastArg.opts.return_context
                   => /\ Len(ret.response.context) = Cardinality(AtOrAbove(raw))
                      /\ \A i \in 1..Len(ret.response.context) :
                            \E j \in AtOrAbove(raw) :
                               /\ ret.response.context[i].score = raw[j][2]
                               /\ ret.response.context[i].content = raw[j][1].content
       /\ lastArg.opts.return_context
             => \A i \in 1..Len(ret.response.context) :
                   ret.response.context[i].score >= SimilarityThreshold

\* the store returned two chunks, one of them with a positive score below
\* the threshold, and the response holds only the other
C11_Witness ==
    /\ lastOp = "query"
    /\ lastArg.opts.return_context
    /\ ret.response.num_results = 1
    /\ \E raw \in StoreReturned :
          /\ Len(raw) = 2
          /\ \E j \in 1..2 : raw[j][2] > 0 /\ raw[j][2] < SimilarityThreshold

\* the generators the last query ran
GeneratorsRun == Range(ret.calls) \cap {"synthesize", "adapter.generate", "generate_answer"}

\* C12 (as stated): one query call runs exactly one generation branch, by the
\* precedence agentic > model override > policy selection > default
\* assembler: with agentic set no adapter is constructed, with model given
\* and agentic unset the policy selector is not run, and the default
\* assembler runs only when none of the three is set.
C12_OneBranchByPrecedence ==
    (lastOp = "query" /\ pc = "returned")
    => LET opts == lastArg.opts
           called == Range(ret.calls)
       IN /\ Cardinality(GeneratorsRun) = 1
          /\ opts.agentic
                => /\ GeneratorsRun = {"synthesize"}
                   /\ "get_adapter" \notin called
                   /\ "select_model" \notin called
          /\ (~opts.agentic /\ opts.model # None)
                => /\ GeneratorsRun = {"adapter.generate"}
                   /\ "select_model" \notin called
          /\ (~opts.agentic /\ opts.model = None /\ opts.use_policy)
                => /\ GeneratorsRun = {"adapter.generate"}
                   /\ "select_model" \in called
          /\ "generate_answer" \in called
                => (~opts.agentic /\ opts.model = None /\ ~opts.use_policy)

\* the last query took the explicit-model or the policy branch, an adapter
\* was built, and its backend call failed or blocked
AdapterCallFailed ==
    /\ lastOp = "query"
    /\ ~lastArg.opts.agentic
    /\ \/ lastArg.opts.model \in RegisteredAdapters
       \/ lastArg.opts.model = None /\ lastArg.opts.use_policy
    /\ lastArg.opts.backend \in {"fails", "blocks"}

\* the response carries exactly what the retrieval step found
RetrievalKept ==
    \E raw \in StoreReturned :
       LET kept == SelectSeq(raw, LAMBDA r : r[2] >= SimilarityThreshold)
           context_chunks == ContextChunks(kept)
       IN /\ ret.response.num_results = Len(kept)
          /\ lastArg.opts.return_context => ret.response.context = context_chunks
          /\ ret.response.sources = {SourceOf(kept[i][1]) : i \in 1..Len(kept)}
          /\ ret.response.combined_context
                = JoinWith(Contents(context_chunks), <<"\n", "\n">>)

\* C13 (as stated): when the adapter's generate call fails or blocks past
\* the per-call timeout in the explicit-model or policy branch, query still
\* returns a response whose answer is the default assembler's output and
\* whose num_results, context, sources and combined_context are those of
\* the retrieval step.
C13_GenerationFailureFallsBack ==
    AdapterCallFailed
    => /\ pc = "returned"
       /\ RetrievalKept
       /\ Head(ret.response.answer) \in {Head(AssemblerPrefix), Head(AssemblerNoContext)}

\* a document process_documents cannot use: no id, or no content
BadDocument(doc) == doc.id = "" \/ doc.content = <<>>

\* the chunks the usable documents of the list are cut into
RECURSIVE ChunksOfUsable(_, _)
ChunksOfUsable(documents, i) ==
    IF i > Len(documents) THEN <<>>
    ELSE (IF BadDocument(documents[i]) THEN <<>>
          ELSE chunk_text(documents[i].content, documents[i].id,
                          documents[i].metadata, config))
         \o ChunksOfUsable(documents, i + 1)

\* C15: process_documents never aborts because of one bad item: a document
\* with an empty or missing id, or with empty content, is skipped, every
\* other document of the batch is still chunked, embedded and stored, and
\* the call returns the aggregate counts (documents_processed,
\* chunks_created, chunks_stored).
C15_BadDocumentSkipped ==
    (lastOp = "process_documents" /\ pc = "returned")
    => LET expected == ChunksOfUsable(lastArg.documents, 1)
       IN /\ ret.documents_processed = Len(lastArg.documents)
          /\ ret.chunks_created = Len(expected)
          /\ ret.chunks_stored <= ret.chunks_created
          /\ \A i \in 1..Len(expected) :
                /\ expected[i].chunk_id \in DOMAIN embedding_cache
                /\ JsonSerializable(expected[i].metadata)
                      => expected[i].chunk_id \in ChunkIds(store)

\* a call whose first document has no id or no content and whose second
\* document was stored
C15_Witness ==
    /\ lastOp = "process_documents"
    /\ pc = "returned"
    /\ Len(lastArg.documents) = 2
    /\ BadDocument(lastArg.documents[1])
    /\ ~BadDocument(lastArg.documents[2])
    /\ prevTotal = 0
    /\ ret.chunks_stored > 0
    /\ RecordsOf(store, lastArg.documents[2].id) # {}

\* the documents handed to the last ingest call
Ingested ==
    IF lastOp = "add_document" THEN <<lastArg.document>> ELSE lastArg.documents

\* document k of the list is the last one with its id, and was stored
LatestStored(documents, k) ==
    /\ ~BadDocument(documents[k])
    /\ JsonSerializable(documents[k].metadata)
    /\ \A m \in (k + 1)..Len(documents) : documents[m].id # documents[k].id

\* C30 (as stated): after any sequence of process_documents, add_document
\* and delete_document calls the records of one document_id have pairwise
\* distinct chunk_index values and all come from the content that
\* document_id was ingested with last: no chunk of an earlier version is left.
C30_NoStaleChunks ==
    /\ \A i, j \in 1..Len(store) :
          (i # j /\ store[i].document_id = store[j].document_id)
          => store[i].chunk_index # store[j].chunk_index
    /\ (pc = "returned" /\ lastOp \in {"process_documents", "add_document"})
       => \A k \in 1..Len(Ingested) :
             LatestStored(Ingested, k)
             => LET latest == chunk_text(Ingested[k].content, Ingested[k].id,
                                         Ingested[k].metadata, config)
                IN \A i \in 1..Len(store) :
                      store[i].document_id = Ingested[k].id
                      => \E n \in 1..Len(latest) : latest[n].chunk_id = store[i].chunk_id

(***************************************************************************)
(* SpecPreprocess: a RAGPipeline built with a RAGConfig.preprocessors      *)
(* list, and apply_preprocessors called on its own                         *)
(***************************************************************************)
MaxPreprocessors == 3

PreprocessorLists == SeqsUpTo(Preprocessors, MaxPreprocessors) \ {<<>>}

PreprocessDocuments ==
    {Doc("d1", TwoSent, Pubmed), Doc("d2", Long, Web), Doc("d3", TwoSent, {})}

InitPreprocess ==
    /\ pc = "ready"
    /\ text = <<>>
    /\ chunks = <<>>
    /\ \E cfg \in PipelineConfigs, preprocessors \in PreprocessorLists :
          config = [chunk_size |-> cfg.chunk_size,
                    chunk_overlap |-> cfg.chunk_overlap,
                    min_chunk_size |-> cfg.min_chunk_size,
                    preserve_sentences |-> cfg.preserve_sentences,
                    preprocessors |-> preprocessors]
    /\ IdleEmbedding
    /\ IdleStore
    /\ IdleCall
    /\ IdlePolicy
    /\ IdleAdapter
    /\ IdleThreads

\* apply_preprocessors(doc, preprocessors)
ApplyPreprocessors ==
    /\ pc = "ready"
    /\ pc' = "returned"
    /\ \E doc \in PreprocessDocuments :
          /\ lastOp' = "apply_preprocessors"
          /\ lastArg' = [op |-> "apply_preprocessors", document |-> doc]
          /\ ret' = apply_preprocessors(doc, config.preprocessors)
    /\ UNCHANGED <<storeVars, embeddingVars, chunkerVars, policyVars, adapterVars, threadVars>>

\* process_documents(documents, batch_size) of the pipeline
PreprocessAndStore ==
    /\ pc = "ready"
    /\ pc' = "returned"
    /\ \E documents \in SeqsUpTo(PreprocessDocuments, MaxDocs), batch_size \in BatchSizes :
          LET r == process_documents_pre(documents, config.preprocessors, batch_size,
                                         store, embedding_cache, EmptyFn,
                                         cache_embeddings, config)
          IN /\ store' = r.store
             /\ embedding_cache' = r.cache
             /\ lastOp' = "process_documents"
             /\ lastArg' = [op |-> "process_documents", documents |-> documents,
                            batch_size |-> batch_size]
             /\ ret' = r.stats
    /\ prevIds' = ChunkIds(store)
    /\ prevTotal' = get_statistics(store).total_chunks
    /\ UNCHANGED <<repeated, sole_doc, pgvector, stored_log, encode_count,
                   cache_embeddings, chunkerVars, policyVars, adapterVars, threadVars>>

NextPreprocess ==
    \/ ApplyPreprocessors
    \/ PreprocessAndStore
    \/ Return

SpecPreprocess == InitPreprocess /\ [][NextPreprocess]_vars

\* preprocessor i of the configured list raised in the last
\* apply_preprocessors call
RaisedAt(i) ==
    /\ lastOp = "apply_preprocessors"
    /\ i \in 1..Len(config.preprocessors)
    /\ i <= Len(ret.received)
    /\ RunPreprocessor(config.preprocessors[i], ret.received[i]).raised

\* the failure of preprocessor i is in the audit, under its own key
ErrorRecorded(i) ==
    LET key == AuditKey(i - 1, config.preprocessors[i])
    IN /\ key \in DOMAIN ret.audit
       /\ ret.audit[key].status = "error"

\* every preprocessor of the list was called
AllRan == Len(ret.received) = Len(config.preprocessors)

\* every document with an id and with content left after preprocessing has
\* rows in the store
AllStored ==
    \A d \in 1..Len(lastArg.documents) :
       LET doc == lastArg.documents[d]
       IN (doc.id # "" /\ apply_preprocessors(doc, config.preprocessors).content # <<>>)
          => RecordsOf(store, doc.id) # {}

MaxCost == 5

CostValues == {0, 1, MaxCost}

\* the costs argument: a price for some of the catalog's adapters
CostTables == UNION {[ids -> CostValues] : ids \in SUBSET Range(Catalog)}

Selectors ==
    {ModelPolicySelector(costs, default_model_id) :
        costs \in CostTables,
        default_model_id \in {"hf-typhoon-7b", "qwen3-code", "no-such-model"}}

Personas == {"None", "clinician", "wellness"}

Languages == {"None", "en", "th", "TH", "mixed"}

\* the constraints dict: each key present or absent
ConstraintDicts ==
    {allow @@ cost :
        allow \in {NoCosts} \cup {("allow_external" :> b) : b \in BOOLEAN},
        cost \in {NoCosts} \cup {("max_cost_per_call" :> c) : c \in (0 - 1)..1 \cup {MaxCost - 1}}}

InitPolicy ==
    /\ pc = "ready"
    /\ selector \in Selectors
    /\ IdleChunker
    /\ IdleEmbedding
    /\ IdleStore
    /\ IdleCall
    /\ IdleAdapter
    /\ IdleThreads

\* selector.select_model(persona=..., language=..., constraints=...)
SelectModel ==
    /\ pc = "ready"
    /\ pc' = "returned"
    /\ \E persona \in Personas, language \in Languages, constraints \in ConstraintDicts :
          /\ lastOp' = "select_model"
          /\ lastArg' = [op |-> "select_model", persona |-> persona,
                         language |-> language, constraints |-> constraints]
          /\ ret' = select_model(selector, persona, language, constraints)
    /\ UNCHANGED <<storeVars, embeddingVars, chunkerVars, policyVars, adapterVars, threadVars>>

NextPolicy ==
    \/ SelectModel
    \/ Return

SpecPolicy == InitPolicy /\ [][NextPolicy]_vars

\* the last call was select_model and it has returned
Selected == lastOp = "select_model" /\ pc = "returned"

AllowExternal == Get(lastArg.constraints, "allow_external", FALSE)

CostLimited == "max_cost_per_call" \in DOMAIN lastArg.constraints

\* the catalog adapters that pass the allow_external and the cost filter
Surviving ==
    {mid \in Range(Catalog) :
        /\ AllowExternal \/ Provider(mid) # "openai"
        /\ CostLimited => get_cost(selector, mid) <= lastArg.constraints["max_cost_per_call"]}

\* C16 (as stated): when constraints.allow_external is false or absent,
\* select_model returns only a local adapter, for every persona, language
\* and max_cost_per_call for which at least one catalog adapter survives
\* the filters.
C16_LocalOnlyWithoutExternal ==
    (Selected /\ ~AllowExternal /\ Surviving # {}) => Local(ret)

\* C17: select_model never returns an adapter whose cost in the selector's
\* cost table exceeds max_cost_per_call when at least one catalog adapter
\* passes the allow_external and cost filters; with allow_external true
\* and max_cost_per_call 0 the returned adapter costs 0, for every persona
\* and language.
C17_BudgetRespected ==
    (Selected /\ CostLimited /\ Surviving # {})
    => /\ ret \in Surviving
       /\ get_cost(selector, ret) <= lastArg.constraints["max_cost_per_call"]
       /\ (AllowExternal /\ lastArg.constraints["max_cost_per_call"] = 0)
             => get_cost(selector, ret) = 0

\* a clinician's call with allow_external true and a ceiling of 0 on a
\* selector that prices the OpenAI adapter above 0
C17_Witness ==
    /\ Selected
    /\ CostLimited
    /\ AllowExternal
    /\ lastArg.persona = "clinician"
    /\ lastArg.constraints["max_cost_per_call"] = 0
    /\ get_cost(selector, "openai-gpt-4o-mini") > 0
    /\ get_cost(selector, ret) = 0

\* C18: select_model with language 'th' or 'mixed', allow_external false
\* and no cost ceiling returns 'hf-typhoon-7b' for every persona; the
\* language rule comes before the persona rule (a clinician allowed
\* external adapters still gets 'hf-typhoon-7b') and before the generic
\* preference order.
C18_ThaiPrefersTyphoon ==
    (Selected /\ lastArg.language \in {"th", "mixed"} /\ ~CostLimited)
    => /\ ~AllowExternal => ret = "hf-typhoon-7b"
       /\ (AllowExternal /\ lastArg.persona = "clinician") => ret = "hf-typhoon-7b"

\* a clinician's Thai query with external adapters disallowed
C18_Witness ==
    /\ Selected
    /\ lastArg.language = "th"
    /\ lastArg.persona = "clinician"
    /\ "allow_external" \in DOMAIN lastArg.constraints
    /\ ~AllowExternal
    /\ ~CostLimited
    /\ ret = "hf-typhoon-7b"

\* C24: when no catalog adapter passes the allow_external and
\* max_cost_per_call filters, select_model returns the selector's default
\* id for every persona and language: the constructor's default_model_id
\* when the catalog has it (the built-in 'hf-typhoon-7b' otherwise), an
\* adapter that does not pass the filters.
C24_DefaultWhenNoneSurvives ==
    (Selected /\ Surviving = {})
    => /\ ret = selector._default
       /\ ret \in Range(Catalog)
       /\ ret \notin Surviving
       /\ \A d \in Range(Catalog) :
             ModelPolicySelector(selector._costs, d)._default = d
       /\ ModelPolicySelector(selector._costs, "no-such-model")._default = "hf-typhoon-7b"

\* a ceiling of 0 on a selector that prices every adapter above 0 and was
\* constructed with default_model_id 'qwen3-code'
C24_Witness ==
    /\ Selected
    /\ Surviving = {}
    /\ lastArg.constraints["max_cost_per_call"] = 0
    /\ selector._default = "qwen3-code"
    /\ get_cost(selector, "qwen3-code") > 0
    /\ ret = "qwen3-code"

(***************************************************************************)
(* SpecAdapter: generate called on one adapter built by get_adapter         *)
(***************************************************************************)
\* TyphoonHFAdapter._ensure_pipeline (lines 28-50): the first call tries to
\* load the transformers pipeline and remembers a failure
_ensure_pipeline(ad) ==
    IF ad.adapter_id # "hf-typhoon-7b" \/ ad._pipeline \/ ad._init_error THEN ad
    ELSE IF ad.backend = "unavailable" THEN [ad EXCEPT !._init_error = TRUE]
    ELSE [ad EXCEPT !._pipeline = TRUE]

\* context chunks as the pipeline passes them: 'aa.', ' ' and 'a. a.'
ContextPool ==
    {[content |-> <<"a", "a", ".">>, score |-> 77, document_id |-> "d1", chunk_index |-> 0],
     [content |-> <<" ">>, score |-> 77, document_id |-> "d1", chunk_index |-> 1],
     [content |-> Short, score |-> 100, document_id |-> "d2", chunk_index |-> 0]}

MaxContext == 2

InitAdapter ==
    /\ pc = "ready"
    /\ \E adapter_id \in RegisteredAdapters, backend \in BackendStates :
          adapter = [adapter_id |-> adapter_id, backend |-> backend,
                     _pipeline |-> FALSE, _init_error |-> FALSE]
    /\ IdleChunker
    /\ IdleEmbedding
    /\ IdleStore
    /\ IdleCall
    /\ IdlePolicy
    /\ IdleThreads

\* adapter.generate(prompt, context)
AdapterGenerateCall ==
    /\ pc = "ready"
    /\ \E context \in SeqsUpTo(ContextPool, MaxContext) :
          LET g == AdapterGenerate(adapter.adapter_id, context, adapter.backend)
          IN /\ pc' = IF g.returned THEN "returned" ELSE "blocked"
             /\ adapter' = _ensure_pipeline(adapter)
             /\ lastOp' = "generate"
             /\ lastArg' = [op |-> "generate", context |-> context, first |-> <<>>]
             /\ ret' = g
    /\ repeated' = FALSE
    /\ UNCHANGED <<store, pgvector, stored_log, prevIds, sole_doc, prevTotal,
                   embeddingVars, chunkerVars, policyVars, threadVars>>

\* the caller repeats the call with the same context
AdapterGenerateAgain ==
    /\ pc = "returned"
    /\ lastOp = "generate"
    /\ ~repeated
    /\ LET g == AdapterGenerate(adapter.adapter_id, lastArg.context, adapter.backend)
       IN /\ pc' = IF g.returned THEN "returned" ELSE "blocked"
          /\ adapter' = _ensure_pipeline(adapter)
          /\ lastArg' = [lastArg EXCEPT !.first = <<ret>>]
          /\ ret' = g
    /\ repeated' = TRUE
    /\ UNCHANGED <<lastOp, store, pgvector, stored_log, prevIds, sole_doc, prevTotal,
                   embeddingVars, chunkerVars, policyVars, threadVars>>

NextAdapter ==
    \/ AdapterGenerateCall
    \/ AdapterGenerateAgain
    \/ Return

SpecAdapter == InitAdapter /\ [][NextAdapter]_vars

\* the last call was generate on an adapter whose backend cannot be used
\* or whose backend call fails
FallbackCase ==
    /\ lastOp = "generate"
    /\ adapter.backend \in {"unavailable", "fails"}

\* the text the fallback string carries: the joined contents of the
\* context chunks, cut to FallbackChars, or the fixed phrase of the
\* unavailable case when there is no content to take
FromContext(context) ==
    LET combined == Strip(JoinWith(Contents(context), <<" ">>))
    IN {Take(combined, FallbackChars)}
       \cup (IF combined = <<>> THEN {<<"No context available.">>} ELSE {})

Threads == {1, 2}

\* chunks with three different chunk_ids
ThreadPool ==
    {DocumentChunk("d1", <<"a">>, 0, 0, 1, NoMetadata),
     DocumentChunk("d1", <<"a", "a">>, 0, 0, 2, NoMetadata),
     DocumentChunk("d2", <<"a", "a">>, 0, 0, 2, NoMetadata)}

\* a thread that is not inside embed_chunks
NotCalling ==
    [pc |-> "idle", chunks |-> <<>>, i |-> 0, results |-> <<>>,
     chunks_to_embed |-> <<>>, embeddings |-> <<>>]

\* the cache of a generator that has embedded nothing, or one chunk
WarmCaches ==
    {EmptyFn} \cup {(c.chunk_id :> generate_embedding(c.content)) : c \in ThreadPool}

InitEmbedThreads ==
    /\ pc = "threads"
    /\ threads = [t \in Threads |-> NotCalling]
    /\ embedding_cache \in WarmCaches
    /\ encode_count = EmptyFn
    /\ cache_embeddings \in BOOLEAN
    /\ IdleChunker
    /\ IdleStore
    /\ IdleCall
    /\ IdlePolicy
    /\ IdleAdapter

\* lines 140-145: a thread enters embed_chunks; an empty list returns at once
CallEmbedChunks ==
    /\ \E t \in Threads, cs \in SeqsUpTo(ThreadPool, MaxBatch) :
          /\ threads[t].pc = "idle"
          /\ threads' = [threads EXCEPT ![t] =
                            [NotCalling EXCEPT !.pc = IF cs = <<>> THEN "done" ELSE "scan",
                                               !.chunks = cs, !.i = 1]]
    /\ UNCHANGED <<pc, embeddingVars, chunkerVars, storeVars, callVars, policyVars,
                   adapterVars>>

\* lines 148-156: one turn of the cache check
ScanChunk ==
    /\ \E t \in Threads :
          LET th == threads[t]
              chunk == th.chunks[th.i]
              hit == cache_embeddings /\ chunk.chunk_id \in DOMAIN embedding_cache
              results == IF hit
                         THEN Append(th.results, <<chunk, embedding_cache[chunk.chunk_id]>>)
                         ELSE th.results
              queued == IF hit THEN th.chunks_to_embed
                        ELSE Append(th.chunks_to_embed, chunk)
          IN /\ th.pc = "scan"
             /\ threads' = [threads EXCEPT ![t] =
                   [th EXCEPT !.results = results, !.chunks_to_embed = queued,
                              !.i = th.i + 1,
                              !.pc = IF th.i < Len(th.chunks) THEN "scan"
                                     ELSE IF queued = <<>> THEN "done"
                                     ELSE "encode"]]
    /\ UNCHANGED <<pc, embeddingVars, chunkerVars, storeVars, callVars, policyVars,
                   adapterVars>>

\* lines 159-161: generate_embeddings_batch(texts_to_embed)
EncodeBatch ==
    /\ \E t \in Threads :
          LET th == threads[t]
          IN /\ th.pc = "encode"
             /\ threads' = [threads EXCEPT ![t] =
                   [th EXCEPT !.embeddings =
                                  [j \in 1..Len(th.chunks_to_embed) |->
                                      generate_embedding(th.chunks_to_embed[j].content)],
                              !.i = 1, !.pc = "write"]]
    /\ UNCHANGED <<pc, embeddingVars, chunkerVars, storeVars, callVars, policyVars,
                   adapterVars>>

\* lines 164-167: one turn of the loop that caches and collects
WriteChunk ==
    /\ \E t \in Threads :
          LET th == threads[t]
              chunk == th.chunks_to_embed[th.i]
              embedding == th.embeddings[th.i]
          IN /\ th.pc = "write"
             /\ embedding_cache' = IF cache_embeddings
                                   THEN Put(embedding_cache, chunk.chunk_id, embedding)
                                   ELSE embedding_cache
             /\ threads' = [threads EXCEPT ![t] =
                   [th EXCEPT !.results = Append(th.results, <<chunk, embedding>>),
                              !.i = th.i + 1,
                              !.pc = IF th.i < Len(th.chunks_to_embed) THEN "write"
                                     ELSE "done"]]
    /\ UNCHANGED <<pc, encode_count, cache_embeddings, chunkerVars, storeVars, callVars,
                   policyVars, adapterVars>>

\* line 170: the thread's caller takes the results
ThreadReturn ==
    /\ \E t \in Threads :
          /\ threads[t].pc = "done"
          /\ threads' = [threads EXCEPT ![t] = NotCalling]
    /\ UNCHANGED <<pc, embeddingVars, chunkerVars, storeVars, callVars, policyVars,
                   adapterVars>>

NextEmbedThreads ==
    \/ CallEmbedChunks
    \/ ScanChunk
    \/ EncodeBatch
    \/ WriteChunk
    \/ ThreadReturn

SpecEmbedThreads == InitEmbedThreads /\ [][NextEmbedThreads]_vars

\* a call that has finished returns every chunk of its list, each with the
\* embedding of its own content, and with the cache enabled it leaves each
\* of them cached under its chunk_id with that value
ReturnsOwnEmbeddings ==
    \A t \in Threads :
       threads[t].pc = "done"
       => LET th == threads[t]
          IN /\ Len(th.results) = Len(th.chunks)
             /\ {th.results[j][1] : j \in 1..Len(th.results)} = Range(th.chunks)
             /\ \A j \in 1..Len(th.results) :
                   /\ th.results[j][2] = generate_embedding(th.results[j][1].content)
                   /\ cache_embeddings
                         => /\ th.results[j][1].chunk_id \in DOMAIN embedding_cache
                            /\ embedding_cache[th.results[j][1].chunk_id] = th.results[j][2]

\* a step keeps every entry the cache has, with its value
EntriesKept ==
    \A k \in DOMAIN embedding_cache :
       /\ k \in DOMAIN embedding_cache'
       /\ embedding_cache'[k] = embedding_cache[k]

\* C20: when two embed_chunks calls for the same chunk_id run concurrently
\* on one generator, under every interleaving both return that chunk's
\* embedding and the cache ends with a single entry for the chunk_id
\* holding that value; no interleaving of reads and inserts loses or
\* corrupts the entry of another chunk_id.
C20_ConcurrentEmbedConverges ==
    [][EntriesKept /\ ReturnsOwnEmbeddings']_vars

\* both calls have finished, both found the same chunk uncached and
\* computed its embedding, and a third chunk_id was cached before
C20_Witness ==
    /\ threads[1].pc = "done"
    /\ threads[2].pc = "done"
    /\ cache_embeddings
    /\ \E c \in ThreadPool :
          /\ c \in Range(threads[1].chunks_to_embed)
          /\ c \in Range(threads[2].chunks_to_embed)
          /\ c.chunk_id \in DOMAIN embedding_cache
          /\ \E k \in DOMAIN embedding_cache : k # c.chunk_id

(***************************************************************************)
(* SpecEmbedClear: embed_chunks calls and clear_cache on one                *)
(* EmbeddingGenerator from different threads.  The membership test of line *)
(* 149 and the read of line 152 are two dictionary operations with a       *)
(* logger call between them; no lock is held.                              *)
(***************************************************************************)
\* line 149: `chunk.chunk_id in self.embedding_cache`
TestCached ==
    /\ \E t \in Threads :
          LET th == threads[t]
              chunk == th.chunks[th.i]
              hit == cache_embeddings /\ chunk.chunk_id \in DOMAIN embedding_cache
              queued == Append(th.chunks_to_embed, chunk)
          IN /\ th.pc = "scan"
             /\ threads' = [threads EXCEPT ![t] =
                   IF hit THEN [th EXCEPT !.pc = "read"]
                   ELSE [th EXCEPT !.chunks_to_embed = queued,
                                   !.i = th.i + 1,
                                   !.pc = IF th.i < Len(th.chunks) THEN "scan"
                                          ELSE "encode"]]
    /\ UNCHANGED <<pc, embeddingVars, chunkerVars, storeVars, callVars, policyVars,
                   adapterVars>>

\* line 152: `self.embedding_cache[chunk.chunk_id]`; a key that is gone
\* raises KeyError, which nothing in embed_chunks catches
ReadCached ==
    /\ \E t \in Threads :
          LET th == threads[t]
              chunk == th.chunks[th.i]
          IN /\ th.pc = "read"
             /\ threads' = [threads EXCEPT ![t] =
                   IF chunk.chunk_id \in DOMAIN embedding_cache
                   THEN [th EXCEPT !.results =
                                       Append(th.results,
                                              <<chunk, embedding_cache[chunk.chunk_id]>>),
                                   !.i = th.i + 1,
                                   !.pc = IF th.i < Len(th.chunks) THEN "scan"
                                          ELSE IF th.chunks_to_embed = <<>> THEN "done"
                                          ELSE "encode"]
                   ELSE [th EXCEPT !.pc = "raised"]]
    /\ UNCHANGED <<pc, embeddingVars, chunkerVars, storeVars, callVars, policyVars,
                   adapterVars>>

\* lines 225-228, called through RAGPipeline.clear_cache (pipeline.py
\* lines 374-378) by a thread that is not inside embed_chunks
ClearCacheConcurrent ==
    /\ pc = "threads"
    /\ embedding_cache' = EmptyFn
    /\ UNCHANGED <<pc, encode_count, cache_embeddings, threadVars, chunkerVars, storeVars,
                   callVars, policyVars, adapterVars>>

\* the KeyError leaves embed_chunks and reaches the thread's caller
ThreadRaise ==
    /\ \E t \in Threads :
          /\ threads[t].pc = "raised"
          /\ threads' = [threads EXCEPT ![t] = NotCalling]
    /\ UNCHANGED <<pc, embeddingVars, chunkerVars, storeVars, callVars, policyVars,
                   adapterVars>>

NextEmbedClear ==
    \/ CallEmbedChunks
    \/ TestCached
    \/ ReadCached
    \/ EncodeBatch
    \/ WriteChunk
    \/ ThreadReturn
    \/ ThreadRaise
    \/ ClearCacheConcurrent

SpecEmbedClear == InitEmbedThreads /\ [][NextEmbedClear]_vars

\* C28 (as stated): an embed_chunks call that interleaves with a
\* clear_cache on the same generator completes and returns a vector for
\* every chunk of its list; the clear never comes between the membership
\* test and the read of the entry so that the call fails.
C28_ClearDuringEmbedCompletes ==
    \A t \in Threads :
       /\ threads[t].pc # "raised"
       /\ threads[t].pc = "done" => Len(threads[t].results) = Len(threads[t].chunks)

(***************************************************************************)
(* SpecStoreRace: two sessions run store_chunk_embeddings_batch on one      *)
(* database.  A step is the query for the existing row, or the write with  *)
(* its commit or rollback; the database puts conflicting writes in order.  *)
(***************************************************************************)
\* two versions of one chunk and a chunk of another document
RacePool ==
    {<<TestChunk(<<"doc1", 0, 0>>, "doc1", <<"a">>, 0, Pubmed), 0>>,
     <<TestChunk(<<"doc1", 0, 0>>, "doc1", <<"a", ".">>, 0, PubmedThai), 1>>,
     <<TestChunk(<<"doc2", 0, 0>>, "doc2", <<"a">>, 0, NoMetadata), 1>>,
     <<TestChunk(<<"doc2", 0, 0>>, "doc2", <<"a">>, 0, Unserializable), 3>>}

\* a session that is not inside store_chunk_embeddings_batch
NotStoring ==
    [pc |-> "idle", pairs |-> <<>>, i |-> 0, existing |-> FALSE,
     success_count |-> 0, oks |-> <<>>, lost |-> <<>>]

InitStoreRace ==
    /\ pc = "threads"
    /\ threads = [t \in Threads |-> NotStoring]
    /\ store = <<>>
    /\ pgvector = FALSE
    /\ stored_log = EmptyFn
    /\ prevIds = {}
    /\ sole_doc = NoDoc
    /\ prevTotal = 0
    /\ repeated = FALSE
    /\ IdleChunker
    /\ IdleEmbedding
    /\ IdleCall
    /\ IdlePolicy
    /\ IdleAdapter

\* lines 205-210: a session enters store_chunk_embeddings_batch
CallStoreBatch ==
    /\ \E t \in Threads, pairs \in SeqsUpTo(RacePool, MaxBatch) :
          /\ threads[t].pc = "idle"
          /\ threads' = [threads EXCEPT ![t] =
                            [NotStoring EXCEPT !.pc = IF pairs = <<>> THEN "done" ELSE "query",
                                               !.pairs = pairs, !.i = 1]]
    /\ UNCHANGED <<pc, storeVars, embeddingVars, chunkerVars, callVars, policyVars,
                   adapterVars>>

\* line 139: session.query(ChunkEmbedding).filter_by(chunk_id=...).first()
QueryExisting ==
    /\ \E t \in Threads :
          LET th == threads[t]
          IN /\ th.pc = "query"
             /\ threads' = [threads EXCEPT ![t] =
                   [th EXCEPT !.existing = IndexOf(store, th.pairs[th.i][1].chunk_id) > 0,
                              !.pc = "write"]]
    /\ UNCHANGED <<pc, storeVars, embeddingVars, chunkerVars, callVars, policyVars,
                   adapterVars>>

\* lines 141-190 and the count of lines 212-214
WriteRecord ==
    /\ \E t \in Threads :
          LET th == threads[t]
              pair == th.pairs[th.i]
              r == write_record(store, pair[1], pair[2], th.existing)
              raced == ~th.existing /\ IndexOf(store, pair[1].chunk_id) > 0
                          /\ JsonSerializable(pair[1].metadata)
          IN /\ th.pc = "write"
             /\ store' = r.store
             /\ threads' = [threads EXCEPT ![t] =
                   [th EXCEPT !.oks = Append(th.oks, r.ok),
                              !.lost = Append(th.lost, raced),
                              !.success_count = th.success_count + (IF r.ok THEN 1 ELSE 0),
                              !.i = th.i + 1,
                              !.pc = IF th.i < Len(th.pairs) THEN "query" ELSE "done"]]
    /\ UNCHANGED <<pc, pgvector, stored_log, prevIds, sole_doc, prevTotal, repeated,
                   embeddingVars, chunkerVars, callVars, policyVars, adapterVars>>

\* lines 216-217: the session's caller takes the count
StoreBatchReturn ==
    /\ \E t \in Threads :
          /\ threads[t].pc = "done"
          /\ threads' = [threads EXCEPT ![t] = NotStoring]
    /\ UNCHANGED <<pc, storeVars, embeddingVars, chunkerVars, callVars, policyVars,
                   adapterVars>>

NextStoreRace ==
    \/ CallStoreBatch
    \/ QueryExisting
    \/ WriteRecord
    \/ StoreBatchReturn

SpecStoreRace == InitStoreRace /\ [][NextStoreRace]_vars

\* the calls of session t that have returned True
Counted(t) == {j \in 1..Len(threads[t].oks) : threads[t].oks[j]}

\* C29: in every reachable state the store holds at most one record per
\* chunk_id, also when two store_chunk_embedding calls for one new chunk_id
\* both found no record before either inserted; the call that loses
\* returns False and is not counted in the batch result, and the records
\* its batch stored before stay in the store.
C29_OneRecordPerChunkId ==
    /\ \A i, j \in 1..Len(store) : i # j => store[i].chunk_id # store[j].chunk_id
    /\ \A t \in Threads :
          LET th == threads[t]
          IN /\ th.success_count = Cardinality(Counted(t))
             /\ \A j \in 1..Len(th.lost) : th.lost[j] => ~th.oks[j]
             /\ \A j \in Counted(t) : th.pairs[j][1].chunk_id \in ChunkIds(store)

\* session 1 has stored the first chunk of its batch and lost the race for
\* the second, which session 2 inserted after both had found no record
C29_Witness ==
    /\ threads[1].pc = "done"
    /\ threads[1].oks = <<TRUE, FALSE>>
    /\ threads[1].lost = <<FALSE, TRUE>>
    /\ threads[1].success_count = 1
    /\ threads[2].oks = <<TRUE>>
    /\ threads[2].pairs[1][1].chunk_id = threads[1].pairs[2][1].chunk_id
    /\ Len(store) = 2

====
